---- MODULE Spec2Model ----
(***************************************************************************)
(* Verification model of the BackFlow analysis engine: route discovery,    *)
(* the data-flow tracer, symbol resolution, call-target resolution, the    *)
(* call-graph analysis, block extraction, file discovery and the AST       *)
(* handlers.                                                               *)
(* Source text is modelled as strings and scanned character by character,  *)
(* the regular expressions of the source are run by a small backtracking   *)
(* matcher with the semantics of the JavaScript engine (leftmost match,    *)
(* greedy quantifiers, alternatives in order).                             *)
(***************************************************************************)
EXTENDS Integers, Sequences, FiniteSets, TLC

(***************************************************************************)
(* String primitives (1-based positions).                                  *)
(***************************************************************************)
Ch(s, i) == IF i >= 1 /\ i <= Len(s) THEN SubSeq(s, i, i) ELSE ""

UpperLetters == "ABCDEFGHIJKLMNOPQRSTUVWXYZ"
LowerLetters == "abcdefghijklmnopqrstuvwxyz"
Digits == "0123456789"

CharsOf(s) == {SubSeq(s, i, i) : i \in 1..Len(s)}

WordChar == CharsOf(UpperLetters) \cup CharsOf(LowerLetters) \cup CharsOf(Digits) \cup {"_"}
SpaceChar == {" ", "\t", "\n", "\r"}

StartsAt(s, i, t) == i + Len(t) - 1 <= Len(s) /\ SubSeq(s, i, i + Len(t) - 1) = t

\* String.prototype.includes
Includes(s, t) == \E i \in 1..(Len(s) + 1) : StartsAt(s, i, t)

\* String.prototype.startsWith / endsWith
StartsWith(s, t) == StartsAt(s, 1, t)
EndsWith(s, t) == Len(t) <= Len(s) /\ StartsAt(s, Len(s) - Len(t) + 1, t)

LetterIndex(letters, c) == CHOOSE i \in 1..Len(letters) : SubSeq(letters, i, i) = c

LowerChar(c) == IF c \in CharsOf(UpperLetters) THEN Ch(LowerLetters, LetterIndex(UpperLetters, c)) ELSE c
UpperChar(c) == IF c \in CharsOf(LowerLetters) THEN Ch(UpperLetters, LetterIndex(LowerLetters, c)) ELSE c

\* The recursions over a string halve it, so that their depth stays
\* logarithmic in its length.
RECURSIVE ToLowerCase(_)
\* String.prototype.toLowerCase
ToLowerCase(s) ==
  IF Len(s) = 0 THEN ""
  ELSE IF Len(s) = 1 THEN LowerChar(s)
  ELSE ToLowerCase(SubSeq(s, 1, Len(s) \div 2)) \o ToLowerCase(SubSeq(s, Len(s) \div 2 + 1, Len(s)))

RECURSIVE ToUpperCase(_)
\* String.prototype.toUpperCase
ToUpperCase(s) ==
  IF Len(s) = 0 THEN ""
  ELSE IF Len(s) = 1 THEN UpperChar(s)
  ELSE ToUpperCase(SubSeq(s, 1, Len(s) \div 2)) \o ToUpperCase(SubSeq(s, Len(s) \div 2 + 1, Len(s)))

SetMin(S) == CHOOSE m \in S : \A o \in S : m <= o
SetMax(S) == CHOOSE m \in S : \A o \in S : m >= o

\* String.prototype.split with a one-character separator
Split(s, sep) ==
  LET seps == {i \in 1..Len(s) : SubSeq(s, i, i) = sep}
      n == Cardinality(seps)
      \* the k-th separator; 0 before the first and Len(s) + 1 after the last
      at(k) == IF k = 0 THEN 0
               ELSE IF k = n + 1 THEN Len(s) + 1
               ELSE CHOOSE i \in seps : Cardinality({j \in seps : j < i}) = k - 1
  IN [k \in 1..(n + 1) |-> SubSeq(s, at(k - 1) + 1, at(k) - 1)]

\* String.prototype.trim
Trim(s) ==
  LET keep == {i \in 1..Len(s) : SubSeq(s, i, i) \notin SpaceChar}
  IN IF keep = {} THEN "" ELSE SubSeq(s, SetMin(keep), SetMax(keep))

\* content.substring(0, index).split('\n').length, index 0-based = position - 1
LineOfPosition(content, pos) == Cardinality({i \in 1..(pos - 1) : Ch(content, i) = "\n"}) + 1

(***************************************************************************)
(* Regular expressions.  A pattern is a sequence of items; Run matches the *)
(* items against s from position i, trying the alternatives of every item  *)
(* in the order of a backtracking engine, and gives the first match.       *)
(***************************************************************************)
Lit(t) == [k |-> "lit", s |-> t]
Star(c) == [k |-> "cls", c |-> c, min |-> 0]
Plus(c) == [k |-> "cls", c |-> c, min |-> 1]
Alt(a) == [k |-> "alt", a |-> a]
Opt(r) == [k |-> "opt", r |-> r]
StarGroup(r) == [k |-> "starg", r |-> r]
\* (?:r1|r2|...): alternatives that are patterns themselves
AltGroup(rs) == [k |-> "altg", rs |-> rs]
\* ^ of a /m pattern: the start of a line
Bol == [k |-> "bol"]
Open(n) == [k |-> "mark", n |-> n, e |-> 0]
Close(n) == [k |-> "mark", n |-> n, e |-> 1]

InClass(c, cls) ==
  CASE cls = "\\w" -> c \in WordChar
    [] cls = "\\s" -> c \in SpaceChar
    [] cls = "[^\"]" -> c # "\""
    [] cls = "[^)]" -> c # ")"
    [] cls = "[^\"\\s]" -> c # "\"" /\ c \notin SpaceChar
    [] cls = "[^\\s{]" -> c \notin SpaceChar /\ c # "{"
    [] cls = "[^\\w]" -> c \notin WordChar
    [] cls = "." -> c \notin {"\n", "\r"}
    [] cls = "/" -> c = "/"
    [] cls = "-" -> c = "-"

\* the length of the longest run of characters of the class from position i
RECURSIVE RunWithin(_, _, _, _)
RunWithin(s, lo, hi, cls) ==
  IF lo > hi THEN 0
  ELSE IF lo = hi THEN (IF InClass(SubSeq(s, lo, lo), cls) THEN 1 ELSE 0)
  ELSE LET mid == (lo + hi) \div 2
           left == RunWithin(s, lo, mid, cls)
       IN IF left < mid - lo + 1 THEN left ELSE left + RunWithin(s, mid + 1, hi, cls)
RunLength(s, i, cls) == RunWithin(s, i, Len(s), cls)

NoMatch == [ok |-> FALSE, start |-> 0, end |-> 0, m |-> <<>>]

RECURSIVE Run(_, _, _)
RECURSIVE RunClass(_, _, _, _, _)
RECURSIVE RunAlt(_, _, _, _, _)
RECURSIVE RunCounts(_, _, _, _, _)
RECURSIVE RunAltGroup(_, _, _, _, _)
Run(items, s, i) ==
  IF Len(items) = 0 THEN [ok |-> TRUE, start |-> i, end |-> i, m |-> <<>>]
  ELSE LET it == Head(items)
           rest == Tail(items)
       IN CASE it.k = "lit" ->
                 IF StartsAt(s, i, it.s) THEN Run(rest, s, i + Len(it.s)) ELSE NoMatch
            [] it.k = "cls" -> RunClass(it, rest, s, i, RunLength(s, i, it.c))
            [] it.k = "alt" -> RunAlt(it.a, 1, rest, s, i)
            [] it.k = "opt" ->
                 LET r == Run(it.r \o rest, s, i)
                 IN IF r.ok THEN r ELSE Run(rest, s, i)
            [] it.k = "starg" ->
                 LET r == Run(it.r \o <<it>> \o rest, s, i)
                 IN IF r.ok THEN r ELSE Run(rest, s, i)
            [] it.k = "altg" -> RunAltGroup(it.rs, 1, rest, s, i)
            [] it.k = "bol" ->
                 IF i = 1 \/ Ch(s, i - 1) = "\n" THEN Run(rest, s, i) ELSE NoMatch
            [] it.k = "mark" ->
                 LET r == Run(rest, s, i)
                 IN IF r.ok THEN [r EXCEPT !.m = <<<<it.n, it.e, i>>>> \o @] ELSE r

\* a greedy quantified class: the longest run first, then shorter ones
\* (the counts lo..n, the larger half first)
RunClass(it, rest, s, i, n) == RunCounts(rest, s, i, it.min, n)

RunCounts(rest, s, i, lo, hi) ==
  IF lo > hi THEN NoMatch
  ELSE IF lo = hi THEN Run(rest, s, i + lo)
  ELSE LET mid == (lo + hi) \div 2
           r == RunCounts(rest, s, i, mid + 1, hi)
       IN IF r.ok THEN r ELSE RunCounts(rest, s, i, lo, mid)

RunAlt(alts, j, rest, s, i) ==
  IF j > Len(alts) THEN NoMatch
  ELSE LET r == IF StartsAt(s, i, alts[j]) THEN Run(rest, s, i + Len(alts[j])) ELSE NoMatch
       IN IF r.ok THEN r ELSE RunAlt(alts, j + 1, rest, s, i)

RunAltGroup(rs, j, rest, s, i) ==
  IF j > Len(rs) THEN NoMatch
  ELSE LET r == Run(rs[j] \o rest, s, i)
       IN IF r.ok THEN r ELSE RunAltGroup(rs, j + 1, rest, s, i)

\* the match at the leftmost start position in lo..hi
RECURSIVE FirstMatch(_, _, _, _)
FirstMatch(items, s, lo, hi) ==
  IF lo > hi THEN NoMatch
  ELSE IF lo = hi THEN LET r == Run(items, s, lo)
                       IN IF r.ok THEN [r EXCEPT !.start = lo] ELSE r
  ELSE LET mid == (lo + hi) \div 2
           r == FirstMatch(items, s, lo, mid)
       IN IF r.ok THEN r ELSE FirstMatch(items, s, mid + 1, hi)

\* RegExp.prototype.exec from position `from`: the leftmost match
Exec(items, s, from) == FirstMatch(items, s, from, Len(s) + 1)

\* the loop `while ((match = pattern.exec(content)) !== null)` of a /g pattern
RECURSIVE ExecAll(_, _, _)
ExecAll(items, s, from) ==
  LET r == Exec(items, s, from)
  IN IF ~r.ok THEN <<>>
     ELSE <<r>> \o ExecAll(items, s, IF r.end = r.start THEN r.end + 1 ELSE r.end)

\* String.prototype.match with a pattern without /g, as a truth value
Matches(items, s) == Exec(items, s, 1).ok

HasGroup(match, n) == \E j \in 1..Len(match.m) : match.m[j][1] = n /\ match.m[j][2] = 0
MarkPos(match, n, e) ==
  LET j == CHOOSE j \in 1..Len(match.m) : match.m[j][1] = n /\ match.m[j][2] = e
  IN match.m[j][3]
\* match[n]; the empty string stands for undefined (tested with || in the source)
Group(match, s, n) ==
  IF HasGroup(match, n) THEN SubSeq(s, MarkPos(match, n, 0), MarkPos(match, n, 1) - 1) ELSE ""

\* s.replace(/[cls]/g, by) for a one-character class
RECURSIVE ReplaceEach(_, _, _)
ReplaceEach(s, cls, by) ==
  IF Len(s) = 0 THEN ""
  ELSE IF Len(s) = 1 THEN (IF InClass(s, cls) THEN by ELSE s)
  ELSE ReplaceEach(SubSeq(s, 1, Len(s) \div 2), cls, by)
         \o ReplaceEach(SubSeq(s, Len(s) \div 2 + 1, Len(s)), cls, by)

\* s.replace(/[cls]+/g, by): every maximal run of the class becomes one
\* `by`, that is: a character of the class is replaced by `by` when it
\* starts a run and dropped when it continues one
RECURSIVE ReplaceRunsIn(_, _, _, _, _)
ReplaceRunsIn(s, lo, hi, cls, by) ==
  IF lo > hi THEN ""
  ELSE IF lo = hi
       THEN (IF ~InClass(SubSeq(s, lo, lo), cls) THEN SubSeq(s, lo, lo)
             ELSE IF lo > 1 /\ InClass(SubSeq(s, lo - 1, lo - 1), cls) THEN "" ELSE by)
  ELSE ReplaceRunsIn(s, lo, (lo + hi) \div 2, cls, by)
         \o ReplaceRunsIn(s, (lo + hi) \div 2 + 1, hi, cls, by)
ReplaceRuns(s, cls, by) == ReplaceRunsIn(s, 1, Len(s), cls, by)

\* s.replace(/\s/g, '')
RemoveSpaces(s) == ReplaceEach(s, "\\s", "")

RECURSIVE JoinWith(_, _)
\* Array.prototype.join
JoinWith(parts, sep) ==
  IF Len(parts) = 0 THEN ""
  ELSE IF Len(parts) = 1 THEN parts[1]
  ELSE parts[1] \o sep \o JoinWith(Tail(parts), sep)

Range(f) == {f[i] : i \in 1..Len(f)}

SeqsUpTo(S, n) == UNION {[1..k -> S] : k \in 0..n}

(***************************************************************************)
(* The project on disk: the .go files in the order getGoFilesRecursive     *)
(* returns them, each with its path relative to the project root and its   *)
(* text.                                                                   *)
(***************************************************************************)
VARIABLES
  files,         \* the project: <<[path, content]>> in discovery order
  routes,        \* go:discoverAPIRoutes: the routes pushed so far
  fileIdx,       \* go:discoverAPIRoutes: files scanned so far
  uniqueRoutes,  \* go:discoverAPIRoutes: the returned list
  rpc,           \* go:discoverAPIRoutes: "idle", "scanning" or "done"
  targetRoute,   \* go:traceAPIFlow: <<route>> once found, <<>> before
  nodes,         \* traceCompleteDataFlow: the DataFlowNode array
  edges,         \* traceCompleteDataFlow: the DataFlowEdge array
  processedFunctions, \* traceCompleteDataFlow: the visited set of funcKeys
  stack,         \* the pending traceFunctionCalls invocations, innermost last
  expanded,      \* history: the funcKeys whose body was expanded, in order
  tpc,           \* go:traceAPIFlow: "idle", "tracing", "done" or "error"
  symbol,        \* findSymbolInProject: the symbol looked for
  symFileIdx,    \* findSymbolInProject: files scanned so far
  symResult,     \* findSymbolInProject: <<SymbolInfo>> once found, <<>> for null
  spc,           \* findSymbolInProject: "idle", "searching" or "done"
  callGraph,     \* go:analyzeCallGraph: [functions, calls]
  functionMap,   \* resolveCallTargets: the lookup map, key -> FunctionDef
  resIdx,        \* resolveCallTargets: position of the running loop
  cpc,           \* go:analyzeCallGraph: "idle", "extracting", "mapping",
                 \* "resolving", "done" or "error"
  unreadable,    \* the project: the paths of the files whose read fails
  block,         \* block extraction: <<[extractor, startIndex, endIndex, content]>>
                 \* once a block was extracted, <<>> before
  routeId,       \* go:traceAPIFlow: the route ID of the request, "" before
  failure,       \* go:traceAPIFlow: the message of the error the request is
                 \* rejected with, "" when it is not
  tree,          \* file discovery: the entries of the project directory
  lister,        \* file discovery: the function that ran, "" before
  scanned,       \* file discovery: the paths it returned
  symbols,       \* analyzeProjectSymbols: the ProjectSymbol array
  astIdx,        \* analyzeProjectSymbols: files parsed so far
  astResult,     \* ast:analyzeFile, ast:getDuplicateSymbols: <<answer>> once
                 \* the handler returned, <<>> before
  apc,           \* the AST handlers: "idle", "collecting" or "done"
  inputPath,     \* fs:resolvePath: <<inputPath>> of the request, <<>> before
  resolvedPath,  \* fs:resolvePath: <<path>> once it returned, <<>> before
  peer,          \* a second go:traceAPIFlow request in flight: its routeId,
                 \* failure, nodes, edges, processedFunctions, stack and tpc
  callSite,      \* determineNodeType: <<[functionName, context]>> of the call
                 \* to classify, <<>> before
  nodeKind       \* determineNodeType: <<kind>> once it returned, <<>> before

routeVars == <<routes, fileIdx, uniqueRoutes, rpc>>
traceVars == <<targetRoute, nodes, edges, processedFunctions, stack, expanded, tpc>>
symbolVars == <<symbol, symFileIdx, symResult, spc>>
resolveVars == <<callGraph, functionMap, resIdx, cpc>>
\* what the operations above never write
requestVars == <<routeId, failure>>
listVars == <<tree, lister, scanned>>
astVars == <<symbols, astIdx, astResult, apc>>
pathVars == <<inputPath, resolvedPath>>
kindVars == <<callSite, nodeKind>>
extraVars == <<unreadable, block, requestVars, listVars, astVars, pathVars, peer, kindVars>>
vars == <<files, routes, fileIdx, uniqueRoutes, rpc,
          targetRoute, nodes, edges, processedFunctions, stack, expanded, tpc,
          symbol, symFileIdx, symResult, spc, callGraph, functionMap, resIdx, cpc,
          unreadable, block, routeId, failure, tree, lister, scanned,
          symbols, astIdx, astResult, apc, inputPath, resolvedPath, peer,
          callSite, nodeKind>>

\* every file can be read
AllReadable == unreadable = {}

\* no trace was requested
RequestIdle == routeId = "" /\ failure = ""

\* no directory was listed
ListIdle == tree = <<>> /\ lister = "" /\ scanned = <<>>

\* no AST handler was called
AstIdle == symbols = <<>> /\ astIdx = 0 /\ astResult = <<>> /\ apc = "idle"

\* an invocation of go:traceAPIFlow before its first step
IdleRequest ==
  [routeId |-> "", failure |-> "", nodes |-> <<>>, edges |-> <<>>, processedFunctions |-> {},
   stack |-> <<>>, tpc |-> "idle"]

\* no second trace was requested
PeerIdle == peer = IdleRequest

\* no call is classified
KindIdle == callSite = <<>> /\ nodeKind = <<>>

\* no path was resolved
PathIdle == inputPath = <<>> /\ resolvedPath = <<>>

\* no block was extracted
BlockIdle == block = <<>>

\* the state of each operation before it is requested
RouteIdle == routes = <<>> /\ fileIdx = 0 /\ uniqueRoutes = <<>> /\ rpc = "idle"

TraceIdle ==
  /\ targetRoute = <<>>
  /\ nodes = <<>>
  /\ edges = <<>>
  /\ processedFunctions = {}
  /\ stack = <<>>
  /\ expanded = <<>>
  /\ tpc = "idle"

SymbolIdle == symbol = "" /\ symFileIdx = 0 /\ symResult = <<>> /\ spc = "idle"

ResolveIdle ==
  /\ callGraph = [functions |-> <<>>, calls |-> <<>>]
  /\ functionMap = <<>>
  /\ resIdx = 0
  /\ cpc = "idle"

(***************************************************************************)
(* Route discovery (discoverRoutesInFile and its pattern families).        *)
(***************************************************************************)
PathAndHandler ==
  <<Open(2), Plus("[^\"]"), Close(2), Lit("\","), Star("\\s"),
    Open(3), Plus("[^)]"), Close(3), Lit(")")>>
MethodsTail == Opt(<<Lit(".Methods(\""), Open(4), Plus("[^\"]"), Close(4), Lit("\")")>>)
Verbs == <<"GET", "POST", "PUT", "DELETE", "PATCH">>
ChiVerbs == <<"Get", "Post", "Put", "Delete", "Patch">>
VerbCall(verbs) ==
  <<Open(1), Plus("\\w"), Close(1), Lit("."), Open(2), Alt(verbs), Close(2), Lit("(\""),
    Open(3), Plus("[^\"]"), Close(3), Lit("\","), Star("\\s"),
    Open(4), Plus("[^)]"), Close(4), Lit(")")>>
StdHandleFunc(recv) ==
  <<Lit(recv \o ".HandleFunc(\""), Open(1), Plus("[^\"]"), Close(1), Lit("\","), Star("\\s"),
    Open(2), Plus("[^)]"), Close(2), Lit(")")>>

muxPatterns ==
  << <<Open(1), Plus("\\w"), Close(1), Lit(".Handle(\"")>> \o PathAndHandler \o <<MethodsTail>>,
     <<Open(1), Plus("\\w"), Close(1), Lit(".HandleFunc(\"")>> \o PathAndHandler \o <<MethodsTail>>,
     <<Open(1), Plus("\\w"), Close(1), Lit(".PathPrefix(\""), Open(2), Plus("[^\"]"), Close(2),
       Lit("\").Subrouter()")>> >>
ginPatterns ==
  << VerbCall(Verbs),
     <<Open(1), Plus("\\w"), Close(1), Lit(".Handle(\""), Open(2), Alt(Verbs), Close(2),
       Lit("\","), Star("\\s"), Lit("\""), Open(3), Plus("[^\"]"), Close(3), Lit("\","),
       Star("\\s"), Open(4), Plus("[^)]"), Close(4), Lit(")")>> >>
echoPatterns == << VerbCall(Verbs) >>
chiPatterns == << VerbCall(ChiVerbs) >>
httpPatterns == << StdHandleFunc("http"), StdHandleFunc("mux") >>

Typed(patterns, type) == [i \in 1..Len(patterns) |-> [pattern |-> patterns[i], type |-> type]]
allPatterns ==
  Typed(muxPatterns, "mux") \o Typed(ginPatterns, "gin") \o Typed(echoPatterns, "echo")
    \o Typed(chiPatterns, "chi") \o Typed(httpPatterns, "http")

\* path.replace(/^\/*/, '/').replace(/\/$/, '') || '/'
cleanPath(path) ==
  LET lead == RunLength(path, 1, "/")
      a == "/" \o SubSeq(path, lead + 1, Len(path))
      b == IF EndsWith(a, "/") THEN SubSeq(a, 1, Len(a) - 1) ELSE a
  IN IF b = "" THEN "/" ELSE b

\* the mutant: the runs of hyphens are not collapsed
IdWithoutCollapse(method, path, handler, file, line) ==
  ToLowerCase(method) \o "-" \o ReplaceEach(path, "[^\\w]", "-") \o "-"
    \o ReplaceEach(handler, "[^\\w]", "-") \o "-" \o ReplaceEach(file, "[^\\w]", "-")
    \o "-" \o ToString(line)

generateStableRouteId(method, path, handler, file, line) ==
  LET cleanMethod == ToLowerCase(method)
      cleanedPath == ReplaceEach(path, "[^\\w]", "-")
      cleanHandler == ReplaceEach(handler, "[^\\w]", "-")
      cleanFile == ReplaceEach(file, "[^\\w]", "-")
  IN ReplaceRuns(cleanMethod \o "-" \o cleanedPath \o "-" \o cleanHandler \o "-" \o cleanFile
                   \o "-" \o ToString(line), "-", "-")

\* The captures a framework type reads: <<method, path, handler>>.  A group
\* that did not take part in the match is undefined ("" here).
RouteFields(match, frameworkType, content) ==
  CASE frameworkType = "mux" ->
         [method |-> IF Group(match, content, 4) # "" THEN Group(match, content, 4) ELSE "ALL",
          path |-> Group(match, content, 2),
          handler |-> Group(match, content, 3)]
    [] frameworkType \in {"gin", "echo", "chi"} ->
         [method |-> IF Group(match, content, 2) # "" THEN Group(match, content, 2) ELSE "GET",
          path |-> Group(match, content, 3),
          handler |-> Group(match, content, 4)]
    [] frameworkType = "http" ->
         [method |-> "ALL",
          path |-> Group(match, content, 1),
          handler |-> Group(match, content, 2)]

\* The route of one match, as <<route>>, or <<>> for null: an undefined
\* handler (the PathPrefix pattern has no third group) throws in
\* handler.replace and the catch returns null.
parseRouteMatch(match, frameworkType, content, relativePath) ==
  LET f == RouteFields(match, frameworkType, content)
      lineNumber == LineOfPosition(content, match.start)
      parts == Split(RemoveSpaces(f.handler), ".")
      handlerName == IF parts[Len(parts)] # "" THEN parts[Len(parts)] ELSE f.handler
  IN IF f.handler = "" THEN <<>>
     ELSE << [id |-> generateStableRouteId(f.method, f.path, handlerName, relativePath, lineNumber),
              method |-> ToUpperCase(f.method),
              path |-> cleanPath(f.path),
              handler |-> handlerName,
              handlerFile |-> relativePath,
              handlerLine |-> lineNumber] >>

RECURSIVE RoutesOfMatches(_, _, _, _)
RoutesOfMatches(matches, type, content, relativePath) ==
  IF Len(matches) = 0 THEN <<>>
  ELSE parseRouteMatch(Head(matches), type, content, relativePath)
         \o RoutesOfMatches(Tail(matches), type, content, relativePath)

RECURSIVE RoutesOfPatterns(_, _, _)
RoutesOfPatterns(patterns, content, relativePath) ==
  IF Len(patterns) = 0 THEN <<>>
  ELSE RoutesOfMatches(ExecAll(Head(patterns).pattern, content, 1), Head(patterns).type,
                       content, relativePath)
         \o RoutesOfPatterns(Tail(patterns), content, relativePath)

discoverRoutesInFile(content, relativePath) == RoutesOfPatterns(allPatterns, content, relativePath)

\* self.findIndex((r) => r.method === route.method && r.path === route.path)
FindIndexOfRoute(self, route) ==
  CHOOSE i \in 1..Len(self) :
    /\ self[i].method = route.method /\ self[i].path = route.path
    /\ \A j \in 1..(i - 1) : ~(self[j].method = route.method /\ self[j].path = route.path)

\* the mutant: the last registration of a (method, path) is the one kept
FilterKeepLast(self) ==
  LET keep == {i \in 1..Len(self) :
                 \A j \in (i + 1)..Len(self) :
                   ~(self[j].method = self[i].method /\ self[j].path = self[i].path)}
      F[i \in 0..Len(self)] ==
        IF i = 0 THEN <<>> ELSE IF i \in keep THEN Append(F[i - 1], self[i]) ELSE F[i - 1]
  IN F[Len(self)]

\* routes.filter((route, index, self) => index === self.findIndex(...))
FilterFirstSeen(self) ==
  LET F[i \in 0..Len(self)] ==
        IF i = 0 THEN <<>>
        ELSE IF FindIndexOfRoute(self, self[i]) = i THEN Append(F[i - 1], self[i]) ELSE F[i - 1]
  IN F[Len(self)]

RECURSIVE RoutesOfFiles(_)
RoutesOfFiles(goFiles) ==
  IF Len(goFiles) = 0 THEN <<>>
  ELSE discoverRoutesInFile(Head(goFiles).content, Head(goFiles).path) \o RoutesOfFiles(Tail(goFiles))

discoverAPIRoutesInternal(goFiles) == FilterFirstSeen(RoutesOfFiles(goFiles))

(***************************************************************************)
(* The projects route discovery is run on: files built from registration   *)
(* statements of every pattern family.                                     *)
(***************************************************************************)
MaxRegs == 2

RegLines ==
  { "mux.HandleFunc(\"/users\", GetUsersHandler).Methods(\"GET\")",
    "r.GET(\"/u/\", h.L)",
    "r.Get(\"//u\", L); r.GET(\"u\", L)",
    "http.HandleFunc(\"/users\", X)",
    "r.Handle(\"GET\", \"/u\", M)",
    "a := r.PathPrefix(\"/u\").Subrouter()" }

\* the registrations of the second file repeat (method, path) pairs of the first
SecondRegs ==
  { "http.HandleFunc(\"/users\", X)",
    "r.GET(\"/u/\", h.L)" }

GoFile(path, regs) == [path |-> path, content |-> JoinWith(<<"package main">> \o regs, "\n")]

RouteProjects ==
  {<<>>}
    \cup {<<GoFile("main.go", a)>> : a \in SeqsUpTo(RegLines, MaxRegs)}
    \cup {<<GoFile("main.go", a), GoFile("api/routes.go", b)>> :
            a \in SeqsUpTo(RegLines, MaxRegs), b \in SeqsUpTo(SecondRegs, 1)}

RouteInit ==
  /\ files \in RouteProjects
  /\ RouteIdle
  /\ TraceIdle
  /\ SymbolIdle
  /\ AllReadable
  /\ BlockIdle
  /\ RequestIdle
  /\ ListIdle
  /\ AstIdle
  /\ PathIdle
  /\ PeerIdle
  /\ KindIdle
  /\ ResolveIdle

\* go:discoverAPIRoutes up to its first file: the file list is taken; with
\* no file the (empty) filtered list is returned at once
DiscoverAPIRoutes ==
  /\ rpc = "idle"
  /\ routes' = <<>>
  /\ fileIdx' = 0
  /\ uniqueRoutes' = <<>>
  /\ rpc' = IF Len(files) = 0 THEN "done" ELSE "scanning"
  /\ UNCHANGED <<files, extraVars, traceVars, symbolVars, resolveVars>>

\* one iteration of the file loop; after the last file the duplicates are
\* filtered out and the list is returned
ScanFile ==
  /\ rpc = "scanning"
  /\ fileIdx < Len(files)
  /\ LET f == files[fileIdx + 1]
         all == routes \o discoverRoutesInFile(f.content, f.path)
     IN /\ routes' = all
        /\ fileIdx' = fileIdx + 1
        /\ IF fileIdx + 1 = Len(files)
           THEN uniqueRoutes' = FilterFirstSeen(all) /\ rpc' = "done"
           ELSE UNCHANGED <<uniqueRoutes, rpc>>
  /\ UNCHANGED <<files, extraVars, traceVars, symbolVars, resolveVars>>

RouteNext == DiscoverAPIRoutes \/ ScanFile

RouteSpec == RouteInit /\ [][RouteNext]_vars

(***************************************************************************)
(* Claims about route discovery.                                           *)
(***************************************************************************)
SamePair(r1, r2) == r1.method = r2.method /\ r1.path = r2.path

\* the indices of `routes` that are the first of their (method, path)
FirstSeen == {i \in 1..Len(routes) : \A j \in 1..(i - 1) : ~SamePair(routes[j], routes[i])}
NthOf(S, k) == CHOOSE i \in S : Cardinality({j \in S : j < i}) = k - 1

TheMuxRegistration == "mux.HandleFunc(\"/users\", GetUsersHandler).Methods(\"GET\")"

\* C6: discovery on a project whose only registration is
\* mux.HandleFunc("/users", GetUsersHandler).Methods("GET") returns exactly
\* one route: GET /users handled by GetUsersHandler.
C6_SingleMuxRoute ==
  (rpc = "done" /\ files = <<GoFile("main.go", <<TheMuxRegistration>>)>>) =>
    /\ Len(uniqueRoutes) = 1
    /\ uniqueRoutes[1].method = "GET"
    /\ uniqueRoutes[1].path = "/users"
    /\ uniqueRoutes[1].handler = "GetUsersHandler"

SameTuple(r1, r2) ==
  /\ r1.method = r2.method /\ r1.path = r2.path /\ r1.handler = r2.handler
  /\ r1.handlerFile = r2.handlerFile /\ r1.handlerLine = r2.handlerLine

\* C7: the ID of a route depends on nothing but its (method, path, handler,
\* file, line) tuple: it is the ID generated from the tuple the route
\* carries, so that routes with identical tuples have identical IDs,
\* whatever the text of their registrations.
C7_IdFromTupleOnly ==
  /\ \A i \in 1..Len(routes) :
       routes[i].id = generateStableRouteId(routes[i].method, routes[i].path, routes[i].handler,
                                            routes[i].handlerFile, routes[i].handlerLine)
  /\ \A i, j \in 1..Len(routes) :
       SameTuple(routes[i], routes[j]) => routes[i].id = routes[j].id

\* the registrations r.Get("//u", L) and r.GET("u", L) of one line, whose
\* raw paths differ, were scanned into routes with the same tuple
C7_Witness ==
  /\ Len(files) = 1
  /\ files[1].content = GoFile("main.go", <<"r.Get(\"//u\", L); r.GET(\"u\", L)">>).content
  /\ Len(routes) = 3
  /\ SameTuple(routes[1], routes[2]) /\ SameTuple(routes[2], routes[3])

(***************************************************************************)
(* The data-flow tracer (traceCompleteDataFlow and its helpers).  A node   *)
(* is modelled by its id, type, name, file and line (0 when it has none),  *)
(* an edge by its source, target, dataType and transformation ("" when it  *)
(* has none); the display fields content and metadata are left out.        *)
(***************************************************************************)
HasFile(goFiles, path) == \E i \in 1..Len(goFiles) : goFiles[i].path = path
\* readFileSync of a file of the project
ReadFile(goFiles, path) == goFiles[CHOOSE i \in 1..Len(goFiles) : goFiles[i].path = path].content

\* the scanner of extractFunctionBody before its first character; bodyStart
\* and bodyEnd are positions, 0 for the -1 of the source
ScanStart ==
  [braceCount |-> 0, bodyStart |-> 0, bodyEnd |-> 0, inString |-> FALSE,
   inComment |-> FALSE, stringChar |-> "", done |-> FALSE]

\* one iteration of the character loop of extractFunctionBody; done stands
\* for the break.  The texts of the model hold no raw (back-quoted) string,
\* so that the double quote is the only string delimiter met.
ScanChar(st, content, i) ==
  LET char == Ch(content, i)
      nextChar == Ch(content, i + 1)
  IN IF st.done THEN st
     ELSE IF char = "\"" /\ ~st.inComment
     THEN IF ~st.inString THEN [st EXCEPT !.inString = TRUE, !.stringChar = char]
          ELSE IF char = st.stringChar /\ Ch(content, i - 1) # "\\"
          THEN [st EXCEPT !.inString = FALSE, !.stringChar = ""]
          ELSE st
     ELSE IF ~st.inString /\ char = "/" /\ nextChar = "/" THEN [st EXCEPT !.inComment = TRUE]
     ELSE IF ~st.inString /\ char = "\n" /\ st.inComment THEN [st EXCEPT !.inComment = FALSE]
     ELSE IF ~st.inString /\ ~st.inComment
     THEN IF char = "{"
          THEN [st EXCEPT !.bodyStart = IF @ = 0 THEN i ELSE @, !.braceCount = @ + 1]
          ELSE IF char = "}"
          THEN IF st.braceCount - 1 = 0
               THEN [st EXCEPT !.braceCount = 0, !.bodyEnd = i, !.done = TRUE]
               ELSE [st EXCEPT !.braceCount = @ - 1]
          ELSE st
     ELSE st

RECURSIVE ScanRange(_, _, _, _)
\* the character loop over the positions lo..hi
ScanRange(st, content, lo, hi) ==
  IF lo > hi THEN st
  ELSE IF lo = hi THEN ScanChar(st, content, lo)
  ELSE LET mid == (lo + hi) \div 2
           left == ScanRange(st, content, lo, mid)
       IN IF left.done THEN left ELSE ScanRange(left, content, mid + 1, hi)

extractFunctionBody(content, startIndex) ==
  LET st == ScanRange(ScanStart, content, startIndex, Len(content))
  IN IF st.bodyStart # 0 /\ st.bodyEnd # 0
     THEN Trim(SubSeq(content, st.bodyStart + 1, st.bodyEnd - 1))
     ELSE ""

\* new RegExp(`func\\s+${functionName}\\s*\\([^)]*\\)`, 'g'), for a
\* functionName that is an identifier
funcRegex(functionName) ==
  <<Lit("func"), Plus("\\s"), Lit(functionName), Star("\\s"), Lit("("), Star("[^)]"), Lit(")")>>

\* /(\w+(?:\.\w+)*)\s*\(/g
callRegex ==
  <<Open(1), Plus("\\w"), StarGroup(<<Lit("."), Plus("\\w")>>), Close(1), Star("\\s"), Lit("(")>>

builtins ==
  {"len", "cap", "make", "append", "copy", "delete", "close", "panic", "recover", "print",
   "println", "new", "complex", "real", "imag", "min", "max", "if", "for", "switch", "select",
   "go", "defer", "return", "break", "continue", "range"}
commonPatterns ==
  {"fmt.", "log.", "strings.", "strconv.", "time.", "context.", "json.", "http.", "url.",
   "regexp.", "sort.", "math."}

isBuiltinOrCommonPattern(funcName) ==
  funcName \in builtins \/ \E pattern \in commonPatterns : StartsWith(funcName, pattern)

\* "" stands for undefined
extractTransformation(line) ==
  IF Includes(line, "json.Marshal") \/ Includes(line, "json.Unmarshal") THEN "JSON Conversion"
  ELSE IF Includes(line, "strconv.") THEN "Type Conversion"
  ELSE IF Includes(line, "strings.") THEN "String Processing"
  ELSE ""

inferDataType(context) ==
  LET lower == ToLowerCase(context)
  IN IF Includes(lower, "json") \/ Includes(lower, "marshal") \/ Includes(lower, "unmarshal")
       THEN "JSON"
     ELSE IF Includes(lower, "xml") THEN "XML"
     ELSE IF Includes(lower, "string") \/ Includes(lower, "text") THEN "String"
     ELSE IF Includes(lower, "int") \/ Includes(lower, "number") THEN "Number"
     ELSE IF Includes(lower, "bool") THEN "Boolean"
     ELSE IF Includes(lower, "slice") \/ Includes(lower, "array") THEN "Array"
     ELSE "Data"

RECURSIVE CallsOfMatches(_, _, _)
\* the loop over the matches of one line
CallsOfMatches(matches, line, i) ==
  IF Len(matches) = 0 THEN <<>>
  ELSE LET funcCall == Group(Head(matches), line, 1)
           this == IF isBuiltinOrCommonPattern(funcCall) THEN <<>>
                   ELSE << [functionName |-> funcCall, context |-> Trim(line), line |-> i,
                            transformation |-> extractTransformation(line)] >>
       IN this \o CallsOfMatches(Tail(matches), line, i)

RECURSIVE CallsOfLines(_, _)
\* the loop over the lines of the body, from line i
CallsOfLines(lines, i) ==
  IF i > Len(lines) THEN <<>>
  ELSE CallsOfMatches(ExecAll(callRegex, lines[i], 1), lines[i], i) \o CallsOfLines(lines, i + 1)

extractFunctionCallsFromFunction(content, functionName) ==
  LET match == Exec(funcRegex(functionName), content, 1)
  IN IF ~match.ok THEN <<>>
     ELSE CallsOfLines(Split(extractFunctionBody(content, match.start), "\n"), 1)

\* the mutant: the repository markers come before the DTO markers
determineRepositoryFirst(functionName, context) ==
  LET lowerFunc == ToLowerCase(functionName)
      lowerContext == ToLowerCase(context)
  IN IF \/ Includes(lowerFunc, "repo") \/ Includes(lowerFunc, "repository")
        \/ Includes(lowerFunc, "find") \/ Includes(lowerFunc, "save")
        \/ Includes(lowerFunc, "get") \/ Includes(lowerFunc, "create")
       THEN "repository"
     ELSE IF \/ Includes(lowerFunc, "dto") \/ Includes(lowerFunc, "model")
             \/ Includes(lowerFunc, "request") \/ Includes(lowerFunc, "response")
             \/ Includes(lowerContext, "json.marshal") \/ Includes(lowerContext, "json.unmarshal")
       THEN "dto"
     ELSE IF \/ Includes(lowerFunc, "db") \/ Includes(lowerFunc, "query")
             \/ Includes(lowerFunc, "exec") \/ Includes(lowerFunc, "scan")
             \/ Includes(lowerContext, "select") \/ Includes(lowerContext, "insert")
             \/ Includes(lowerContext, "update") \/ Includes(lowerContext, "delete")
       THEN "database"
     ELSE IF \/ Includes(lowerFunc, "http") \/ Includes(lowerFunc, "client")
             \/ Includes(lowerFunc, "api")
             \/ Includes(lowerContext, "http.get") \/ Includes(lowerContext, "http.post")
       THEN "external"
     ELSE "service"

determineNodeType(functionName, context) ==
  LET lowerFunc == ToLowerCase(functionName)
      lowerContext == ToLowerCase(context)
  IN IF \/ Includes(lowerFunc, "dto") \/ Includes(lowerFunc, "model")
        \/ Includes(lowerFunc, "request") \/ Includes(lowerFunc, "response")
        \/ Includes(lowerContext, "json.marshal") \/ Includes(lowerContext, "json.unmarshal")
       THEN "dto"
     ELSE IF \/ Includes(lowerFunc, "db") \/ Includes(lowerFunc, "query")
             \/ Includes(lowerFunc, "exec") \/ Includes(lowerFunc, "scan")
             \/ Includes(lowerContext, "select") \/ Includes(lowerContext, "insert")
             \/ Includes(lowerContext, "update") \/ Includes(lowerContext, "delete")
       THEN "database"
     ELSE IF \/ Includes(lowerFunc, "repo") \/ Includes(lowerFunc, "repository")
             \/ Includes(lowerFunc, "find") \/ Includes(lowerFunc, "save")
             \/ Includes(lowerFunc, "get") \/ Includes(lowerFunc, "create")
       THEN "repository"
     ELSE IF \/ Includes(lowerFunc, "http") \/ Includes(lowerFunc, "client")
             \/ Includes(lowerFunc, "api")
             \/ Includes(lowerContext, "http.get") \/ Includes(lowerContext, "http.post")
       THEN "external"
     ELSE "service"

\* /"(SELECT[^"]+)"/gi and its siblings for double-quoted texts, run on the
\* upper-cased text (the patterns are case-insensitive)
queryPatterns ==
  << <<Lit("\"SELECT"), Plus("[^\"]"), Lit("\"")>>, <<Lit("\"INSERT"), Plus("[^\"]"), Lit("\"")>>,
     <<Lit("\"UPDATE"), Plus("[^\"]"), Lit("\"")>>, <<Lit("\"DELETE"), Plus("[^\"]"), Lit("\"")>> >>

RECURSIVE QueryIsUndefined(_, _)
\* extractDatabaseQuery returns match[1] of a /g match, which is the second
\* match of the first pattern that matches: undefined when it matches once
QueryIsUndefined(patterns, content) ==
  IF Len(patterns) = 0 THEN FALSE
  ELSE LET all == ExecAll(Head(patterns), ToUpperCase(content), 1)
       IN IF Len(all) > 0 THEN Len(all) = 1 ELSE QueryIsUndefined(Tail(patterns), content)

RECURSIVE findFunctionDefinition(_, _)
\* <<[file, line, content]>> of the first file with a definition, <<>> for
\* null.  queryUndefined tells what createNodeForFunction meets when it
\* builds the metadata of a database node from the content: an undefined
\* query, on which extractTableName throws.
findFunctionDefinition(goFiles, functionName) ==
  IF Len(goFiles) = 0 THEN <<>>
  ELSE LET content == Head(goFiles).content
           match == Exec(funcRegex(functionName), content, 1)
       IN IF match.ok
          THEN << [file |-> Head(goFiles).path,
                   line |-> LineOfPosition(content, match.start),
                   content |-> extractFunctionBody(content, match.start),
                   queryUndefined |->
                     QueryIsUndefined(queryPatterns, extractFunctionBody(content, match.start))] >>
          ELSE findFunctionDefinition(Tail(goFiles), functionName)

\* (?:\s*\(([^)]*)\))?
ReturnsTail == Opt(<<Star("\\s"), Lit("("), Open(2), Star("[^)]"), Close(2), Lit(")")>>)

\* the funcPatterns of traceHandlerFunction, for a handler that is an identifier
handlerPatterns(handler) ==
  << <<Lit("func"), Plus("\\s"), Lit(handler), Star("\\s"), Lit("("), Open(1), Star("[^)]"),
       Close(1), Lit(")"), ReturnsTail>>,
     <<Lit("func"), Plus("\\s"), Lit("("), Star("[^)]"), Lit(")"), Plus("\\s"), Lit(handler),
       Star("\\s"), Lit("("), Open(1), Star("[^)]"), Close(1), Lit(")"), ReturnsTail>>,
     <<Lit("var"), Plus("\\s"), Lit(handler), Star("\\s"), Lit("=")>> >>

RECURSIVE FirstPatternMatch(_, _)
\* for (const pattern of funcPatterns) { match = pattern.exec(content); if (match) break }
FirstPatternMatch(patterns, content) ==
  IF Len(patterns) = 0 THEN NoMatch
  ELSE LET match == Exec(Head(patterns), content, 1)
       IN IF match.ok THEN match ELSE FirstPatternMatch(Tail(patterns), content)

traceHandlerFunction(goFiles, route) ==
  LET basic == [id |-> "handler-" \o route.handler, type |-> "handler", name |-> route.handler,
                file |-> route.handlerFile, line |-> route.handlerLine]
  IN IF ~HasFile(goFiles, route.handlerFile) THEN basic
     ELSE LET content == ReadFile(goFiles, route.handlerFile)
              match == FirstPatternMatch(handlerPatterns(route.handler), content)
          IN IF ~match.ok THEN basic
             ELSE [basic EXCEPT !.line = LineOfPosition(content, match.start)]

\* the mutant: no node is ever found
NoExistingNode(ns, name, type) == 0

\* nodes.find((n) => n.name === call.functionName && n.type === nodeType):
\* the index of the node, 0 for undefined
FindNode(ns, name, type) ==
  IF \E i \in 1..Len(ns) : ns[i].name = name /\ ns[i].type = type
  THEN SetMin({i \in 1..Len(ns) : ns[i].name = name /\ ns[i].type = type})
  ELSE 0

\* the mutant: no funcKey counts as processed
NeverProcessed(processed, funcKey) == FALSE

\* processedFunctions.has(funcKey)
IsProcessed(processed, funcKey) == funcKey \in processed

\* the mutant: an invocation never returns to its caller
KeepFrame(st) == st

\* the return of an invocation of traceFunctionCalls to its caller
PopFrame(st) == SubSeq(st, 1, Len(st) - 1)

\* the for loop of the innermost invocation goes on to its next call
AdvanceTop(st) == [st EXCEPT ![Len(st)].i = @ + 1]

(***************************************************************************)
(* The projects a trace is run on: main.go registers the handlers A and H  *)
(* and defines H, A and B; the bodies of A and B are drawn from call       *)
(* statements that make self-recursion, mutual recursion, calls classified *)
(* by their call-site text and calls of undefined functions.               *)
(***************************************************************************)
MaxCalls == 2

CallLines == { "A()", "B()", "json.Marshal(B())", "http.Get(B())", "C()" }

BBodies == { <<>>, <<"A()">>, <<"B()", "A()">> }

FuncDecl(name, body) == <<"func " \o name \o "() {">> \o body \o <<"}">>

HandlerRegs == << "r.GET(\"/a\", A)", "r.GET(\"/h\", H)" >>

MainFile(aBody, bBody) ==
  GoFile("main.go", HandlerRegs \o FuncDecl("H", <<"A()">>) \o FuncDecl("A", aBody)
                      \o FuncDecl("B", bBody))

\* further layouts: the handler defined in another file than its
\* registration; B defined under a directory named external; B classified
\* as a database node whose body holds one SQL text; a package-qualified
\* callee
OtherLayouts ==
  { << GoFile("main.go", <<"r.GET(\"/a\", A)">>),
       GoFile("svc/a.go", FuncDecl("A", <<"B()">>) \o FuncDecl("B", <<"A()">>)) >>,
    << GoFile("external/b.go", FuncDecl("B", <<"A()">>)),
       GoFile("main.go", HandlerRegs \o FuncDecl("H", <<"A()">>) \o FuncDecl("A", <<"B()">>)) >>,
    << GoFile("main.go", HandlerRegs \o FuncDecl("H", <<"A()">>)
                           \o FuncDecl("A", <<"B(\"delete\")">>)
                           \o FuncDecl("B", <<"q(\"SELECT 1\")", "A()">>)) >>,
    << GoFile("main.go", HandlerRegs \o FuncDecl("H", <<"A()">>)
                           \o FuncDecl("A", <<"s.Save(B())", "B()">>)
                           \o FuncDecl("B", <<"A()">>)) >> }

\* two registrations of one handler on one line, under paths that differ
\* by a character that is not a word character
IdLayouts ==
  { << GoFile("main.go", <<"r.GET(\"/a/b\", H); r.GET(\"/a-b\", H)">>
                           \o FuncDecl("H", <<"A()">>) \o FuncDecl("A", <<>>)) >> }

TraceProjects ==
  {<<MainFile(a, b)>> : a \in SeqsUpTo(CallLines, MaxCalls), b \in BBodies}
    \cup OtherLayouts \cup IdLayouts


(***************************************************************************)
(* The analyses of the text do not depend on the state of a trace: their   *)
(* results for the projects above are tabulated, and the steps of the      *)
(* trace look them up.                                                     *)
(***************************************************************************)
TraceNames == {"A", "B", "C", "H", "q"}

TraceContents == UNION {{p[i].content : i \in 1..Len(p)} : p \in TraceProjects}

\* extractFunctionCallsFromFunction(content, functionName)
CallsOfFunction ==
  [content \in TraceContents |->
     [functionName \in TraceNames |-> extractFunctionCallsFromFunction(content, functionName)]]

TraceCallSites ==
  UNION {Range(CallsOfFunction[content][functionName]) :
           content \in TraceContents, functionName \in TraceNames}

\* determineNodeType(call.functionName, call.context)
NodeTypeOf ==
  [call \in TraceCallSites |-> determineNodeType(call.functionName, call.context)]

\* inferDataType(call.context)
DataTypeOf == [call \in TraceCallSites |-> inferDataType(call.context)]

\* findFunctionDefinition(projectPath, functionName)
DefinitionOf ==
  [goFiles \in TraceProjects |->
     [functionName \in TraceNames |-> findFunctionDefinition(goFiles, functionName)]]

\* discoverAPIRoutesInternal(projectPath)
RoutesOf == [goFiles \in TraceProjects |-> discoverAPIRoutesInternal(goFiles)]

\* traceHandlerFunction(projectPath, route) for the routes of the project
HandlerNodeOf ==
  [goFiles \in TraceProjects |->
     [i \in 1..Len(RoutesOf[goFiles]) |-> traceHandlerFunction(goFiles, RoutesOf[goFiles][i])]]

createNodeForFunction(goFiles, call, nodeType, nodeId) ==
  IF nodeType = "external" \/ Includes(call.functionName, ".")
  THEN [id |-> nodeId, type |-> nodeType, name |-> call.functionName, file |-> "external", line |-> 0]
  ELSE LET functionDef == DefinitionOf[goFiles][call.functionName]
       IN IF functionDef # <<>> /\ ~(nodeType = "database" /\ functionDef[1].queryUndefined)
          THEN [id |-> nodeId, type |-> nodeType, name |-> call.functionName,
                file |-> functionDef[1].file, line |-> functionDef[1].line]
          ELSE [id |-> nodeId, type |-> nodeType, name |-> call.functionName,
                file |-> "unknown", line |-> 0]

\* The entry of traceFunctionCalls up to its loop: nothing for a processed
\* funcKey; else the key is added and, when the file can be read, the calls
\* of the function are extracted (a read that throws ends the invocation in
\* its catch).  frames is the invocation to run, if any.
EnterFunction(goFiles, currentFile, functionName, sourceNodeId, processed) ==
  LET funcKey == currentFile \o ":" \o functionName
  IN IF IsProcessed(processed, funcKey)
     THEN [processed |-> processed, frames |-> <<>>, keys |-> <<>>]
     ELSE IF ~HasFile(goFiles, currentFile)
     THEN [processed |-> processed \cup {funcKey}, frames |-> <<>>, keys |-> <<>>]
     ELSE [processed |-> processed \cup {funcKey},
           frames |-> << [src |-> sourceNodeId,
                          calls |-> CallsOfFunction[ReadFile(goFiles, currentFile)][functionName],
                          i |-> 1] >>,
           keys |-> <<funcKey>>]

\* the mutant: every new node is traced further
TracedAlways(file) == TRUE

\* newNode.file && !newNode.file.includes('external')
TracedFurther(file) == file # "" /\ ~Includes(file, "external")

\* the mutant: the edge runs from the new node to the caller
EdgeFromNewNode(sourceNodeId, nodeId, call) ==
  [source |-> nodeId, target |-> sourceNodeId, dataType |-> DataTypeOf[call],
   transformation |-> call.transformation]

\* the edge to a newly created node
EdgeToNewNode(sourceNodeId, nodeId, call) ==
  [source |-> sourceNodeId, target |-> nodeId, dataType |-> DataTypeOf[call],
   transformation |-> call.transformation]

\* the mutant: the edge names the existing node by the ID a new node would
\* get
EdgeToFreshId(sourceNodeId, existingNode, call) ==
  [source |-> sourceNodeId,
   target |-> existingNode.type \o "-" \o existingNode.name \o "-new",
   dataType |-> DataTypeOf[call], transformation |-> ""]

\* the edge to an existing node
EdgeToExisting(sourceNodeId, existingNode, call) ==
  [source |-> sourceNodeId, target |-> existingNode.id, dataType |-> DataTypeOf[call],
   transformation |-> ""]

TraceInit ==
  /\ files \in TraceProjects
  /\ RouteIdle
  /\ TraceIdle
  /\ SymbolIdle
  /\ AllReadable
  /\ BlockIdle
  /\ RequestIdle
  /\ ListIdle
  /\ AstIdle
  /\ PathIdle
  /\ PeerIdle
  /\ KindIdle
  /\ ResolveIdle

\* the mutant: an ID of no route selects the first route
RoutesWithIdOrFirst(allRoutes, id) ==
  IF \E i \in 1..Len(allRoutes) : allRoutes[i].id = id
  THEN {i \in 1..Len(allRoutes) : allRoutes[i].id = id}
  ELSE {i \in 1..Len(allRoutes) : i = 1}

\* allRoutes.find((r) => r.id === routeId): the routes the find can stop at
RoutesWithId(allRoutes, id) == {i \in 1..Len(allRoutes) : allRoutes[i].id = id}

\* the error the handler rethrows for an ID of no route
RouteNotFound(id) ==
  "Error tracing API flow: " \o "Error: " \o "Route with ID " \o id \o " not found"

\* the first file readFileSync throws on, and the error the handler
\* rethrows then (the text of the system error stands for itself)
FirstUnreadable(goFiles) ==
  goFiles[SetMin({k \in 1..Len(goFiles) : goFiles[k].path \in unreadable})].path
ReadFailed(path) ==
  "Error tracing API flow: " \o "Error: " \o "EACCES: permission denied, open '" \o path \o "'"

\* the route IDs a trace is requested for: those of the project and one of
\* no route
RequestedIds(goFiles) ==
  {RoutesOf[goFiles][i].id : i \in 1..Len(RoutesOf[goFiles])} \cup {"no-such-route"}

\* go:traceAPIFlow up to the first loop iteration of traceFunctionCalls: the
\* route is looked up by ID (an unknown ID throws); the route node, the
\* handler node and their edge are created and the handler is entered.
\* (A value the step uses several times is bound once, by \E over a
\* singleton.)
\* go:traceAPIFlow once discoverAPIRoutesInternal has returned
TraceRoute(id) ==
  \E allRoutes \in {RoutesOf[files]} :
    \E found \in {RoutesWithId(allRoutes, id)} :
      IF found = {}
      THEN /\ tpc' = "error"
           /\ failure' = RouteNotFound(id)
           /\ UNCHANGED <<targetRoute, nodes, edges, processedFunctions, stack, expanded>>
      ELSE \E route \in {allRoutes[SetMin(found)]} :
             \E handlerNode \in {HandlerNodeOf[files][SetMin(found)]} :
               \E e \in {EnterFunction(files, handlerNode.file, handlerNode.name,
                                       handlerNode.id, {})} :
                 LET routeNode == [id |-> "route-" \o route.id, type |-> "route",
                                   name |-> route.method \o " " \o route.path,
                                   file |-> route.handlerFile, line |-> route.handlerLine]
                 IN /\ targetRoute' = <<route>>
                    /\ nodes' = <<routeNode, handlerNode>>
                    /\ edges' = << [source |-> routeNode.id, target |-> handlerNode.id,
                                    dataType |-> "HTTP Request", transformation |-> ""] >>
                    /\ processedFunctions' = e.processed
                    /\ expanded' = e.keys
                    /\ stack' = e.frames
                    /\ tpc' = IF e.frames = <<>> THEN "done" ELSE "tracing"
                    /\ failure' = ""

\* discoverAPIRoutesInternal reads every file of the project and throws on
\* the first that cannot be read
TraceAPIFlow(id) ==
  /\ routeId' = id
  /\ IF \E k \in 1..Len(files) : files[k].path \in unreadable
     THEN /\ tpc' = "error"
          /\ failure' = ReadFailed(FirstUnreadable(files))
          /\ UNCHANGED <<targetRoute, nodes, edges, processedFunctions, stack, expanded>>
     ELSE TraceRoute(id)

TraceRequest ==
  /\ tpc = "idle"
  /\ \E id \in RequestedIds(files) : TraceAPIFlow(id)
  /\ UNCHANGED <<files, unreadable, block, listVars, astVars, pathVars, peer, kindVars, routeVars, symbolVars, resolveVars>>

HasCall == tpc = "tracing" /\ Len(stack) > 0 /\ stack[Len(stack)].i <= Len(stack[Len(stack)].calls)
CurrentCall == stack[Len(stack)].calls[stack[Len(stack)].i]

\* one loop iteration of traceFunctionCalls for a call whose (name, kind)
\* has no node yet: the node and its edge are created, and the function is
\* entered unless its file is an external one
TraceNewNode ==
  /\ HasCall
  /\ \E call \in {CurrentCall} :
       \E nodeType \in {NodeTypeOf[call]} :
         LET sourceNodeId == stack[Len(stack)].src
             nodeId == nodeType \o "-" \o call.functionName \o "-" \o ToString(Len(nodes))
         IN /\ FindNode(nodes, call.functionName, nodeType) = 0
            /\ \E newNode \in {createNodeForFunction(files, call, nodeType, nodeId)} :
                 \E e \in {IF TracedFurther(newNode.file)
                           THEN EnterFunction(files, newNode.file, newNode.name, nodeId,
                                              processedFunctions)
                           ELSE [processed |-> processedFunctions, frames |-> <<>>,
                                 keys |-> <<>>]} :
                   /\ nodes' = Append(nodes, newNode)
                   /\ edges' = Append(edges, EdgeToNewNode(sourceNodeId, nodeId, call))
                   /\ processedFunctions' = e.processed
                   /\ expanded' = expanded \o e.keys
                   /\ stack' = AdvanceTop(stack) \o e.frames
  /\ UNCHANGED <<files, extraVars, routeVars, symbolVars, resolveVars, targetRoute, tpc>>

\* one loop iteration for a call whose (name, kind) has a node: an edge to
\* that node is added
TraceExistingNode ==
  /\ HasCall
  /\ \E call \in {CurrentCall} :
       \E nodeType \in {NodeTypeOf[call]} :
         \E existing \in {FindNode(nodes, call.functionName, nodeType)} :
           /\ existing # 0
           /\ edges' = Append(edges, EdgeToExisting(stack[Len(stack)].src, nodes[existing], call))
           /\ stack' = AdvanceTop(stack)
  /\ UNCHANGED <<files, extraVars, routeVars, symbolVars, resolveVars, targetRoute, nodes, processedFunctions, expanded, tpc>>

\* the loop of the innermost invocation is over: it returns; the return of
\* the handler's invocation gives the result {nodes, edges}
ReturnFromTrace ==
  /\ tpc = "tracing"
  /\ Len(stack) > 0
  /\ stack[Len(stack)].i > Len(stack[Len(stack)].calls)
  /\ stack' = PopFrame(stack)
  /\ tpc' = IF PopFrame(stack) = <<>> THEN "done" ELSE "tracing"
  /\ UNCHANGED <<files, extraVars, routeVars, symbolVars, resolveVars, targetRoute, nodes, edges, processedFunctions, expanded>>

TraceNext == TraceRequest \/ TraceNewNode \/ TraceExistingNode \/ ReturnFromTrace

TraceSpec == TraceInit /\ [][TraceNext]_vars

\* the request runs to completion once started: its steps are not postponed
\* forever
TraceLiveSpec == TraceInit /\ [][TraceNext]_vars /\ WF_vars(TraceNext)

(***************************************************************************)
(* Claims about the tracer.                                                *)
(***************************************************************************)
\* the body of f in the file calls g
CallsIn(file, f, g) ==
  \E c \in Range(extractFunctionCallsFromFunction(file.content, f)) : c.functionName = g

\* A and B are defined in the project and call each other
MutualAB ==
  \E i, j \in 1..Len(files) : CallsIn(files[i], "A", "B") /\ CallsIn(files[j], "B", "A")

\* the trace expanded a body of f that calls g
ExpandedBodyCalls(f, g) ==
  \E i \in 1..Len(files) :
    (files[i].path \o ":" \o f) \in Range(expanded) /\ CallsIn(files[i], f, g)

NodeOfId(id) == nodes[CHOOSE i \in 1..Len(nodes) : nodes[i].id = id]

\* an edge from a node named a to a node named b
EdgeByName(a, b) ==
  \E k \in 1..Len(edges) :
    NodeOfId(edges[k].source).name = a /\ NodeOfId(edges[k].target).name = b

NodesNamed(name) == {i \in 1..Len(nodes) : nodes[i].name = name}

\* C1: every trace request that was started runs to its end: the walk of
\* traceFunctionCalls started at the handler returns and the result
\* {nodes, edges} is produced, whatever recursion the functions hold.
C1_TraceTerminates == (tpc = "tracing") ~> (tpc = "done")

\* a trace is over whose result holds a call cycle: two nodes with an edge
\* in each direction
C1_Witness ==
  /\ tpc = "done"
  /\ \E i, j \in 1..Len(edges) :
       /\ edges[i].source # edges[i].target
       /\ edges[i].source = edges[j].target /\ edges[i].target = edges[j].source

\* C2 as amended: when A and B call each other and the trace expands the
\* body of A, the result holds an edge from a node named A to a node named
\* B; it holds an edge from a node named B to a node named A whenever the
\* trace expands the body of B as well; and it holds at least one node
\* named B and no two of the same kind.
C2_MutualCallEdges ==
  (tpc = "done" /\ MutualAB /\ ExpandedBodyCalls("A", "B")) =>
    /\ EdgeByName("A", "B")
    /\ ExpandedBodyCalls("B", "A") => EdgeByName("B", "A")
    /\ NodesNamed("B") # {}
    /\ \A i, j \in NodesNamed("B") : i # j => nodes[i].type # nodes[j].type

\* A and B call each other, both bodies were expanded and the result holds
\* both edges and one node named B
C2_Witness ==
  /\ tpc = "done" /\ MutualAB
  /\ ExpandedBodyCalls("A", "B") /\ ExpandedBodyCalls("B", "A")
  /\ EdgeByName("A", "B") /\ EdgeByName("B", "A")
  /\ Cardinality(NodesNamed("B")) = 1

\* C2 as stated: with A and B calling each other and A traced, the result
\* holds an edge A -> B, an edge B -> A and exactly one node named B.
C2_AsStated ==
  (tpc = "done" /\ MutualAB /\ ExpandedBodyCalls("A", "B")) =>
    /\ EdgeByName("A", "B")
    /\ EdgeByName("B", "A")
    /\ Cardinality(NodesNamed("B")) = 1

\* the (name, kind) of the call the innermost invocation is at has a node
PairPresent ==
  \E i \in 1..Len(nodes) :
    /\ nodes[i].name = CurrentCall.functionName
    /\ nodes[i].type = determineNodeType(CurrentCall.functionName, CurrentCall.context)
PairIndex ==
  CHOOSE i \in 1..Len(nodes) :
    /\ nodes[i].name = CurrentCall.functionName
    /\ nodes[i].type = determineNodeType(CurrentCall.functionName, CurrentCall.context)

NoTwoNodesOfAPair ==
  \A i, j \in 1..Len(nodes) :
    i # j => ~(nodes[i].name = nodes[j].name /\ nodes[i].type = nodes[j].type)

\* C3: no two nodes of a trace share (name, kind), and the step for a call
\* whose (name, kind) has a node creates no node and adds exactly one edge,
\* from the caller to that node.
C3_NodesUniqueByNameKind ==
  /\ []NoTwoNodesOfAPair
  /\ [][(HasCall /\ PairPresent) =>
          /\ nodes' = nodes
          /\ Len(edges') = Len(edges) + 1
          /\ SubSeq(edges', 1, Len(edges)) = edges
          /\ edges'[Len(edges')].source = stack[Len(stack)].src
          /\ edges'[Len(edges')].target = nodes[PairIndex].id]_vars

\* a trace is over in which a call met the node of its (name, kind): there
\* are more edges than the one per node after the route node
C3_Witness == tpc = "done" /\ Len(edges) > Len(nodes) - 1

\* the function the current call names is defined in the project and the
\* body of that definition was expanded
CalleeExpanded ==
  /\ ~Includes(CurrentCall.functionName, ".")
  /\ \E d \in {findFunctionDefinition(files, CurrentCall.functionName)} :
       d # <<>> /\ (d[1].file \o ":" \o CurrentCall.functionName) \in Range(expanded)

\* C4: no (file, function) is expanded twice in a trace, and the step for
\* a call of a function whose body was expanded expands nothing and adds
\* one edge, to a node named as the function.
C4_ExpandedAtMostOnce ==
  /\ [](\A i, j \in 1..Len(expanded) : i # j => expanded[i] # expanded[j])
  /\ [][(HasCall /\ CalleeExpanded) =>
          /\ expanded' = expanded
          /\ Len(edges') = Len(edges) + 1
          /\ \E n \in 1..Len(nodes') :
               /\ nodes'[n].id = edges'[Len(edges')].target
               /\ nodes'[n].name = CurrentCall.functionName]_vars

\* a trace is over in which a function that was expanded got a second node
\* (a call of the handler from a callee): two nodes of one name and file,
\* and one expansion
C4_Witness ==
  /\ tpc = "done"
  /\ \E i, j \in 1..Len(nodes) :
       /\ i # j /\ nodes[i].name = nodes[j].name /\ nodes[i].file = nodes[j].file
       /\ (nodes[i].file \o ":" \o nodes[i].name) \in Range(expanded)

(***************************************************************************)
(* Symbol resolution (findSymbolInProject).  The symbol is an identifier,  *)
(* as findGoDefinition takes it from the text under the cursor.            *)
(***************************************************************************)
\* (?:\s*\([^)]*\))?
SecondParens == Opt(<<Star("\\s"), Lit("("), Star("[^)]"), Lit(")")>>)

\* the three funcPatterns: function, method with receiver, method with
\* pointer receiver
symbolFuncPatterns(sym) ==
  << <<Lit("func"), Plus("\\s"), Lit(sym), Star("\\s"), Lit("("), Star("[^)]"), Lit(")"),
       SecondParens>>,
     <<Lit("func"), Plus("\\s"), Lit("("), Star("[^)]"), Lit(")"), Plus("\\s"), Lit(sym),
       Star("\\s"), Lit("("), Star("[^)]"), Lit(")"), SecondParens>>,
     <<Lit("func"), Plus("\\s"), Lit("("), Star("[^)]"), Plus("\\s"), Opt(<<Lit("*")>>),
       Plus("\\w"), Lit(")"), Plus("\\s"), Lit(sym), Star("\\s"), Lit("("), Star("[^)]"),
       Lit(")")>> >>

structPattern(sym) == <<Lit("type"), Plus("\\s"), Lit(sym), Plus("\\s"), Lit("struct")>>
interfacePattern(sym) == <<Lit("type"), Plus("\\s"), Lit(sym), Plus("\\s"), Lit("interface")>>
typePattern(sym) == <<Lit("type"), Plus("\\s"), Lit(sym), Plus("\\s"), Plus("[^\\s{]")>>
\* `keyword\s+sym\s*[=:]` and `keyword\s*\([^)]*sym[^)]*\)` for const and var
declPatterns(keyword, sym) ==
  << <<Lit(keyword), Plus("\\s"), Lit(sym), Star("\\s"), Alt(<<"=", ":">>)>>,
     <<Lit(keyword), Star("\\s"), Lit("("), Star("[^)]"), Lit(sym), Star("[^)]"), Lit(")")>> >>
shortVarPattern(sym) == <<Lit(sym), Star("\\s"), Lit(":=")>>

\* the battery in the order the loop body tries it, each pattern with the
\* type of the SymbolInfo it resolves to
symbolPatterns(sym) ==
  Typed(symbolFuncPatterns(sym), "function")
    \o << [pattern |-> structPattern(sym), type |-> "struct"],
          [pattern |-> interfacePattern(sym), type |-> "interface"],
          [pattern |-> typePattern(sym), type |-> "type"] >>
    \o Typed(declPatterns("const", sym), "variable")
    \o Typed(declPatterns("var", sym), "variable")
    \o << [pattern |-> shortVarPattern(sym), type |-> "variable"] >>

\* the body of the line loop: the type resolved on this line, "" for none.
\* (The type alias test `typeMatch && !structMatch && !interfaceMatch` is
\* reached only when neither struct nor interface matched.)
symbolTypeOnLine(line, sym) ==
  IF \E i \in 1..3 : Matches(symbolFuncPatterns(sym)[i], line) THEN "function"
  ELSE IF Matches(structPattern(sym), line) THEN "struct"
  ELSE IF Matches(interfacePattern(sym), line) THEN "interface"
  ELSE IF Matches(typePattern(sym), line) THEN "type"
  ELSE IF \E i \in 1..2 : Matches(declPatterns("const", sym)[i], line) THEN "variable"
  ELSE IF \E i \in 1..2 : Matches(declPatterns("var", sym)[i], line) THEN "variable"
  ELSE IF Matches(shortVarPattern(sym), line) THEN "variable"
  ELSE ""

\* the types resolved on the lines of a file
TypesOnLines(lines, sym) == [i \in 1..Len(lines) |-> symbolTypeOnLine(lines[i], sym)]

\* the mutant: the last resolving line of a file
LastResolvingLine(types) ==
  IF \E i \in 1..Len(types) : types[i] # "" THEN SetMax({i \in 1..Len(types) : types[i] # ""})
  ELSE 0

\* for (let i = 0; i < lines.length; i++): the first line that resolves, 0
\* when none does
FirstResolvingLine(types) ==
  IF \E i \in 1..Len(types) : types[i] # "" THEN SetMin({i \in 1..Len(types) : types[i] # ""})
  ELSE 0

\* the mutant: the patterns are tried in their order over the whole file,
\* each over all the lines
findByPriority(lines, sym, file) ==
  LET pats == symbolPatterns(sym)
      hits == {<<k, i>> \in (1..Len(pats)) \X (1..Len(lines)) : Matches(pats[k].pattern, lines[i])}
  IN IF hits = {} THEN <<>>
     ELSE LET k == SetMin({h[1] : h \in hits})
              i == SetMin({h[2] : h \in {g \in hits : g[1] = k}})
          IN << [name |-> sym, type |-> pats[k].type, file |-> file, line |-> i,
                 signature |-> Trim(lines[i])] >>

\* the scan of one file: <<SymbolInfo>> of the first line that resolves
findInLines(lines, sym, file) ==
  LET types == TypesOnLines(lines, sym)
      i == FirstResolvingLine(types)
  IN IF i = 0 THEN <<>>
     ELSE << [name |-> sym, type |-> types[i], file |-> file, line |-> i,
              signature |-> Trim(lines[i])] >>

(***************************************************************************)
(* The projects a symbol is looked up in: files of declaration lines.      *)
(***************************************************************************)
MaxDecls == 2

DeclLines ==
  { "type Foo struct {", "var Foo = 1", "func Foo() {", "func (b *Bar) Foo() {",
    "type Foo int", "const (Foo = 1)", "newFoo := 2", "func Bar() {" }

FirstFileDecls == { <<>>, <<"var Foo = 1">>, <<"newFoo := 2">> }

Symbols == { "Foo", "Bar" }

SymbolProjects ==
  {<<>>}
    \cup {<<GoFile("a.go", a)>> : a \in SeqsUpTo(DeclLines, MaxDecls)}
    \cup {<<GoFile("a.go", a), GoFile("b.go", b)>> :
            a \in FirstFileDecls, b \in SeqsUpTo(DeclLines, 1)}

SymbolInit ==
  /\ files \in SymbolProjects
  /\ RouteIdle
  /\ TraceIdle
  /\ SymbolIdle
  /\ AllReadable
  /\ BlockIdle
  /\ RequestIdle
  /\ ListIdle
  /\ AstIdle
  /\ PathIdle
  /\ PeerIdle
  /\ KindIdle
  /\ ResolveIdle

\* findSymbolInProject up to its first file: with no file, null is resolved
FindSymbolInProject(sym) ==
  /\ spc = "idle"
  /\ symbol' = sym
  /\ symFileIdx' = 0
  /\ symResult' = <<>>
  /\ spc' = IF Len(files) = 0 THEN "done" ELSE "searching"
  /\ UNCHANGED <<files, extraVars, routeVars, traceVars, resolveVars>>

\* one iteration of the file loop: the first line that resolves ends the
\* search; after the last file null is resolved
ScanSymbolFile ==
  /\ spc = "searching"
  /\ symFileIdx < Len(files)
  /\ \E found \in {findInLines(Split(files[symFileIdx + 1].content, "\n"), symbol,
                               files[symFileIdx + 1].path)} :
       /\ symResult' = found
       /\ symFileIdx' = symFileIdx + 1
       /\ spc' = IF found # <<>> \/ symFileIdx + 1 = Len(files) THEN "done" ELSE "searching"
  /\ UNCHANGED <<files, extraVars, routeVars, traceVars, resolveVars, symbol>>

SymbolNext == (\E sym \in Symbols : FindSymbolInProject(sym)) \/ ScanSymbolFile

SymbolSpec == SymbolInit /\ [][SymbolNext]_vars

(***************************************************************************)
(* Claims about symbol resolution.                                         *)
(***************************************************************************)
LinesOf(k) == Split(files[k].content, "\n")

\* some pattern of the battery matches line i of file k
LineMatches(k, i) ==
  \E j \in 1..Len(symbolPatterns(symbol)) : Matches(symbolPatterns(symbol)[j].pattern, LinesOf(k)[i])

\* the places <<file, line>> where some pattern matches
MatchPlaces == {<<k, i>> \in UNION {{k} \X (1..Len(LinesOf(k))) : k \in 1..Len(files)} : LineMatches(k, i)}

Earlier(p, q) == p[1] < q[1] \/ (p[1] = q[1] /\ p[2] < q[2])
EarliestPlace == CHOOSE p \in MatchPlaces : \A q \in MatchPlaces : p = q \/ Earlier(p, q)

\* the type of the first pattern of the battery that matches the line
FirstPatternType(line) ==
  LET pats == symbolPatterns(symbol)
  IN pats[SetMin({j \in 1..Len(pats) : Matches(pats[j].pattern, line)})].type

StructLine == "type Foo struct {"
VarLine == "var Foo = 1"

\* the line of file k that is the given text, 0 when there is none
LineIn(k, text) ==
  IF \E i \in 1..Len(LinesOf(k)) : LinesOf(k)[i] = text
  THEN SetMin({i \in 1..Len(LinesOf(k)) : LinesOf(k)[i] = text})
  ELSE 0

\* file k holds both declarations of Foo and is where the search for Foo
\* meets its first match
HoldsBoth(k) ==
  /\ LineIn(k, StructLine) # 0 /\ LineIn(k, VarLine) # 0
  /\ EarliestPlace[1] = k
  /\ EarliestPlace[2] \in {LineIn(k, StructLine), LineIn(k, VarLine)}

MapSet(map, key, value) ==
  [k \in DOMAIN map \cup {key} |-> IF k = key THEN value ELSE map[k]]

\* the two set calls of the loop over the functions
IndexFunction(map, func) ==
  MapSet(MapSet(map, func.package \o "." \o func.name, func), func.name, func)

\* the mutant: only the package-qualified key is looked up
LookupQualifiedOnly(map, call) ==
  IF (call.package \o "." \o call.calledFunc) \in DOMAIN map
  THEN <<map[call.package \o "." \o call.calledFunc]>>
  ELSE <<>>

\* the mutant: the bare name is looked up first
LookupBareNameFirst(map, call) ==
  IF call.calledFunc \in DOMAIN map THEN <<map[call.calledFunc]>>
  ELSE IF (call.package \o "." \o call.calledFunc) \in DOMAIN map
       THEN <<map[call.package \o "." \o call.calledFunc]>>
       ELSE <<>>

\* functionMap.get(`${call.package}.${calledFunc}`), then
\* functionMap.get(calledFunc): <<targetFunc>>, <<>> for undefined
LookupTarget(map, call) ==
  IF (call.package \o "." \o call.calledFunc) \in DOMAIN map
  THEN <<map[call.package \o "." \o call.calledFunc]>>
  ELSE IF call.calledFunc \in DOMAIN map THEN <<map[call.calledFunc]>>
       ELSE <<>>

\* the body of the loop over the calls
ResolveOne(map, call) ==
  LET targetFunc == LookupTarget(map, call)
  IN IF targetFunc # <<>>
     THEN [call EXCEPT !.calledFile = targetFunc[1].file, !.calledLine = targetFunc[1].line]
     ELSE call

(***************************************************************************)
(* The call graphs resolution is run on: functions f and g defined in the  *)
(* packages a and b, in every order of discovery, and calls from the       *)
(* packages a, b and c.                                                    *)
(***************************************************************************)
MaxFuncs == 3
MaxCallEdges == 2

FunctionDefs ==
  { [name |-> "f", file |-> "a/x.go", line |-> 3, package |-> "a"],
    [name |-> "f", file |-> "b/y.go", line |-> 3, package |-> "b"],
    [name |-> "g", file |-> "b/y.go", line |-> 7, package |-> "b"],
    [name |-> "f", file |-> "a/z.go", line |-> 5, package |-> "a"] }

FunctionCalls ==
  { [callerFunc |-> "main", callerFile |-> "a/x.go", callerLine |-> 9, calledFunc |-> "f",
     calledFile |-> "", calledLine |-> 0, package |-> "a"],
    [callerFunc |-> "g", callerFile |-> "b/y.go", callerLine |-> 8, calledFunc |-> "f",
     calledFile |-> "", calledLine |-> 0, package |-> "b"],
    [callerFunc |-> "main", callerFile |-> "a/x.go", callerLine |-> 10, calledFunc |-> "g",
     calledFile |-> "", calledLine |-> 0, package |-> "a"],
    [callerFunc |-> "", callerFile |-> "c/w.go", callerLine |-> 2, calledFunc |-> "h",
     calledFile |-> "", calledLine |-> 0, package |-> "c"] }

\* a function is discovered once
Distinct(q) == \A i, j \in 1..Len(q) : i # j => q[i] # q[j]

CallGraphs ==
  {[functions |-> fs, calls |-> cs] :
     fs \in {q \in SeqsUpTo(FunctionDefs, MaxFuncs) : Distinct(q)},
     cs \in SeqsUpTo(FunctionCalls, MaxCallEdges)}

ResolveInit ==
  /\ files = <<>>
  /\ RouteIdle
  /\ TraceIdle
  /\ SymbolIdle
  /\ AllReadable
  /\ BlockIdle
  /\ RequestIdle
  /\ ListIdle
  /\ AstIdle
  /\ PathIdle
  /\ PeerIdle
  /\ KindIdle
  /\ callGraph \in CallGraphs
  /\ functionMap = <<>>
  /\ resIdx = 0
  /\ cpc = "idle"

\* resolveCallTargets is called on the extracted graph
ResolveCallTargets ==
  /\ cpc = "idle"
  /\ functionMap' = <<>>
  /\ resIdx' = 0
  /\ cpc' = "mapping"
  /\ UNCHANGED <<files, extraVars, routeVars, traceVars, symbolVars, callGraph>>

\* one iteration of the loop that builds the lookup map
MapFunction ==
  /\ cpc = "mapping"
  /\ resIdx < Len(callGraph.functions)
  /\ functionMap' = IndexFunction(functionMap, callGraph.functions[resIdx + 1])
  /\ resIdx' = resIdx + 1
  /\ UNCHANGED <<files, extraVars, routeVars, traceVars, symbolVars, callGraph, cpc>>

\* the map is built: the loop over the calls starts
StartResolving ==
  /\ cpc = "mapping"
  /\ resIdx = Len(callGraph.functions)
  /\ resIdx' = 0
  /\ cpc' = "resolving"
  /\ UNCHANGED <<files, extraVars, routeVars, traceVars, symbolVars, callGraph, functionMap>>

\* one iteration of the loop over the calls
ResolveCall ==
  /\ cpc = "resolving"
  /\ resIdx < Len(callGraph.calls)
  /\ callGraph' = [callGraph EXCEPT !.calls[resIdx + 1] = ResolveOne(functionMap, @)]
  /\ resIdx' = resIdx + 1
  /\ UNCHANGED <<files, extraVars, routeVars, traceVars, symbolVars, functionMap, cpc>>

\* the calls are resolved: the graph is returned
ReturnCallGraph ==
  /\ cpc = "resolving"
  /\ resIdx = Len(callGraph.calls)
  /\ cpc' = "done"
  /\ UNCHANGED <<files, extraVars, routeVars, traceVars, symbolVars, callGraph, functionMap, resIdx>>

ResolveNext ==
  ResolveCallTargets \/ MapFunction \/ StartResolving \/ ResolveCall \/ ReturnCallGraph

ResolveSpec == ResolveInit /\ [][ResolveNext]_vars

(***************************************************************************)
(* Claims about call-target resolution.                                    *)
(***************************************************************************)
\* the discovered functions of the name, and those of the call's package
DefsNamed(call) ==
  {i \in 1..Len(callGraph.functions) : callGraph.functions[i].name = call.calledFunc}
DefsInPackage(call) ==
  {i \in DefsNamed(call) : callGraph.functions[i].package = call.package}

AnnotatedWith(call, i) ==
  /\ call.calledFile = callGraph.functions[i].file
  /\ call.calledLine = callGraph.functions[i].line

\* C10: every call edge whose callee is defined in the edge's own package
\* is annotated with the file and line of a definition of that package,
\* whichever other packages define the name and in whatever order; only
\* when the package defines none the bare name decides: the edge gets the
\* definition last discovered under the name, or stays without target when
\* there is none.
C10_PackageQualifiedFirst ==
  cpc = "done" =>
    \A c \in 1..Len(callGraph.calls) :
      LET call == callGraph.calls[c]
      IN IF DefsInPackage(call) # {}
         THEN \E i \in DefsInPackage(call) : AnnotatedWith(call, i)
         ELSE IF DefsNamed(call) # {}
              THEN AnnotatedWith(call, SetMax(DefsNamed(call)))
              ELSE call.calledFile = "" /\ call.calledLine = 0

\* a graph was resolved in which the callee of an edge is defined in the
\* edge's package and, later in the order of discovery, in another one,
\* and the edge points into its own package
C10_Witness ==
  /\ cpc = "done"
  /\ \E c \in 1..Len(callGraph.calls) :
       LET call == callGraph.calls[c]
       IN /\ DefsInPackage(call) # {}
          /\ SetMax(DefsNamed(call)) \notin DefsInPackage(call)
          /\ \E i \in DefsInPackage(call) : AnnotatedWith(call, i)

\* an edge without its target location
WithoutTarget(call) == [call EXCEPT !.calledFile = "", !.calledLine = 0]

HasTarget(call) == call.calledFile # "" /\ call.calledLine # 0
NoTarget(call) == call.calledFile = "" /\ call.calledLine = 0

\* C11: resolution never adds, removes or reorders functions or call
\* edges and changes nothing of an edge but its target location; in the
\* resolved graph an edge has a target location exactly when some
\* discovered function has the callee's name, and otherwise keeps
\* calledFile and calledLine absent.
C11_EdgesKeptTargetIffDefined ==
  /\ [][ /\ callGraph'.functions = callGraph.functions
         /\ Len(callGraph'.calls) = Len(callGraph.calls)
         /\ \A c \in 1..Len(callGraph.calls) :
              WithoutTarget(callGraph'.calls[c]) = WithoutTarget(callGraph.calls[c]) ]_vars
  /\ [](cpc = "done" =>
          \A c \in 1..Len(callGraph.calls) :
            IF DefsNamed(callGraph.calls[c]) # {}
            THEN HasTarget(callGraph.calls[c])
            ELSE NoTarget(callGraph.calls[c]))

\* a graph was resolved with an edge whose callee no function defines,
\* left without target, and an edge whose callee only another package
\* defines, given that definition's location
C11_Witness ==
  /\ cpc = "done"
  /\ \E c \in 1..Len(callGraph.calls) :
       DefsNamed(callGraph.calls[c]) = {} /\ NoTarget(callGraph.calls[c])
  /\ \E c \in 1..Len(callGraph.calls) :
       /\ DefsInPackage(callGraph.calls[c]) = {}
       /\ DefsNamed(callGraph.calls[c]) # {}
       /\ HasTarget(callGraph.calls[c])

(***************************************************************************)
(* Call graph extraction (go:analyzeCallGraph): extractFunctions and       *)
(* extractFunctionCalls on every file, then resolveCallTargets.            *)
(***************************************************************************)
\* /^package\s+(\w+)/m, 'main' when the file has no package clause
packageRegex == <<Bol, Lit("package"), Plus("\\s"), Open(1), Plus("\\w"), Close(1)>>
PackageName(content) ==
  LET packageMatch == Exec(packageRegex, content, 1)
  IN IF packageMatch.ok THEN Group(packageMatch, content, 1) ELSE "main"

\* /^func\s+(?:\([^)]*\)\s+)?(\w+)\s*\(([^)]*)\)
\*   (?:\s*\(([^)]*)\)|\s*(\w+(?:\[\w+\])?))?/gm
funcDeclRegex ==
  <<Bol, Lit("func"), Plus("\\s"),
    Opt(<<Lit("("), Star("[^)]"), Lit(")"), Plus("\\s")>>),
    Open(1), Plus("\\w"), Close(1), Star("\\s"),
    Lit("("), Open(2), Star("[^)]"), Close(2), Lit(")"),
    Opt(<<AltGroup(<<
      <<Star("\\s"), Lit("("), Open(3), Star("[^)]"), Close(3), Lit(")")>>,
      <<Star("\\s"), Open(4), Plus("\\w"), Opt(<<Lit("["), Plus("\\w"), Lit("]")>>),
        Close(4)>> >>)>>)>>

\* str.split(',').map(trim).filter(nonempty)
RECURSIVE NonEmpty(_)
NonEmpty(parts) ==
  IF Len(parts) = 0 THEN <<>>
  ELSE (IF Head(parts) = "" THEN <<>> ELSE <<Head(parts)>>) \o NonEmpty(Tail(parts))
CommaList(str) ==
  LET parts == Split(str, ",")
  IN NonEmpty([k \in 1..Len(parts) |-> Trim(parts[k])])

\* p.split(/\s+/): parts[0] when there are several parts, else 'param'
ParamName(p) ==
  LET spaces == {i \in 1..Len(p) : Ch(p, i) \in SpaceChar}
  IN IF spaces = {} THEN "param" ELSE SubSeq(p, 1, SetMin(spaces) - 1)

\* the FunctionDef pushed for one match of the pattern
FunctionDefOf(match, content, filePath, packageName) ==
  LET paramsStr == Group(match, content, 2)
      returnsStr == IF Group(match, content, 3) # "" THEN Group(match, content, 3)
                    ELSE Group(match, content, 4)
      params == CommaList(paramsStr)
  IN [name |-> Group(match, content, 1),
      file |-> filePath,
      line |-> LineOfPosition(content, match.start),
      package |-> packageName,
      params |-> [k \in 1..Len(params) |-> ParamName(params[k])],
      returns |-> CommaList(returnsStr)]

\* while ((match = funcRegex.exec(content)) !== null)
extractFunctions(content, filePath, packageName) ==
  LET matches == ExecAll(funcDeclRegex, content, 1)
  IN [k \in 1..Len(matches) |-> FunctionDefOf(matches[k], content, filePath, packageName)]

keywordBuiltins ==
  {"make", "len", "cap", "append", "copy", "delete", "close", "panic", "recover", "print",
   "println", "new", "complex", "real", "imag", "min", "max", "if", "for", "switch",
   "select", "go", "defer", "return", "break", "continue", "fmt.Printf", "fmt.Println",
   "fmt.Print", "fmt.Sprintf", "log.Printf", "log.Println"}

isBuiltinOrKeyword(name) ==
  \/ name \in keywordBuiltins
  \/ StartsWith(name, "fmt.")
  \/ StartsWith(name, "log.")
  \/ StartsWith(name, "strconv.")
  \/ StartsWith(name, "strings.")
  \/ Includes(name, ".")

\* /^func\s+(?:\([^)]*\)\s+)?(\w+)\s*\(/ on one line
funcLineRegex ==
  <<Bol, Lit("func"), Plus("\\s"), Opt(<<Lit("("), Star("[^)]"), Lit(")"), Plus("\\s")>>),
    Open(1), Plus("\\w"), Close(1), Star("\\s"), Lit("(")>>

\* /(\w+(?:\.\w+)?)\s*\(/g
callSiteRegex ==
  <<Open(1), Plus("\\w"), Opt(<<Lit("."), Plus("\\w")>>), Close(1), Star("\\s"), Lit("(")>>

\* the calls pushed for the matches of one line
RECURSIVE CallsOfLine(_, _, _, _, _, _)
CallsOfLine(callMatches, line, currentFunction, filePath, lineNumber, packageName) ==
  IF Len(callMatches) = 0 THEN <<>>
  ELSE LET calledFunc == Group(Head(callMatches), line, 1)
           rest == CallsOfLine(Tail(callMatches), line, currentFunction, filePath, lineNumber,
                               packageName)
       IN IF isBuiltinOrKeyword(calledFunc) THEN rest
          ELSE <<[callerFunc |-> currentFunction, callerFile |-> filePath,
                  callerLine |-> lineNumber, calledFunc |-> calledFunc,
                  calledFile |-> "", calledLine |-> 0, package |-> packageName]>> \o rest

\* the line loop from line i on
RECURSIVE CallsFromLine(_, _, _, _, _)
CallsFromLine(lines, i, currentFunction, filePath, packageName) ==
  IF i > Len(lines) THEN <<>>
  ELSE LET funcMatch == Run(funcLineRegex, lines[i], 1)
       IN IF funcMatch.ok
          THEN CallsFromLine(lines, i + 1, Group(funcMatch, lines[i], 1), filePath, packageName)
          ELSE CallsOfLine(ExecAll(callSiteRegex, lines[i], 1), lines[i], currentFunction,
                           filePath, i, packageName)
                 \o CallsFromLine(lines, i + 1, currentFunction, filePath, packageName)

extractFunctionCalls(content, filePath, packageName) ==
  CallsFromLine(Split(content, "\n"), 1, "", filePath, packageName)

(***************************************************************************)
(* The files the call graph is extracted from: a package clause and        *)
(* top-level constructs, each on lines of its own.  `func` names the       *)
(* function a construct declares, "" when it declares none.                *)
(***************************************************************************)
MaxTopDecls == 2

TopDecls ==
  { [text |-> "func A() {\n\tB(1)\n}", func |-> "A"],
    [text |-> "func (s *S) B(x int) error {\n\treturn s.err\n}", func |-> "B"],
    [text |-> "func C(\n\ta int,\n) (int, error) {\n\treturn len(A()), nil\n}", func |-> "C"],
    [text |-> "func Map[T any](xs []T) []T {\n\treturn xs\n}", func |-> "Map"],
    [text |-> "/*\nfunc old() {\n}\n*/", func |-> ""],
    [text |-> "type S struct {\n\terr error\n}", func |-> ""] }

PackageClauses == {"package svc", "// no package clause"}

RECURSIVE Texts(_)
Texts(ds) == IF Len(ds) = 0 THEN <<>> ELSE <<Head(ds).text>> \o Texts(Tail(ds))

FileText(clause, ds) == JoinWith(<<clause>> \o Texts(ds), "\n")

TopDeclSeqs == SeqsUpTo(TopDecls, MaxTopDecls)

SourceFile(path, content) == [path |-> path, content |-> content]

AnalyzedFiles ==
  {SourceFile("svc/a.go", FileText(c, ds)) : c \in PackageClauses, ds \in TopDeclSeqs}

MainGo == SourceFile("main.go", "package main\nfunc main() {\n\tA()\n}")

AnalyzeProjects ==
  {<<>>}
    \cup {<<f>> : f \in AnalyzedFiles}
    \cup {<<MainGo, SourceFile("svc/a.go", FileText("package svc", <<d>>))>> : d \in TopDecls}

(***************************************************************************)
(* The files the calls are extracted from: constructs with call            *)
(* statements.  `calls` names the calls of a construct, each with its      *)
(* callee and the offset of its line in the text.                          *)
(***************************************************************************)
MaxCallDecls == 2

Calls(callee, offset) == [callee |-> callee, offset |-> offset]

CallDecls ==
  { [text |-> "func A() {\n\tB(1)\n\ts.Save(x)\n}", func |-> "A",
     calls |-> <<Calls("B", 1), Calls("s.Save", 2)>>],
    [text |-> "func (s *S) B(x int) error {\n\tif len(x) > 0 {\n\t\treturn repo.Find(x)\n\t}\n"
                \o "\treturn fmt.Errorf(\"bad\")\n}",
     func |-> "B", calls |-> <<Calls("repo.Find", 2)>>],
    [text |-> "func Map[T any](xs []T) []T {\n\treturn conv(xs)\n}", func |-> "Map",
     calls |-> <<Calls("conv", 1)>>],
    [text |-> "func C(\n\ta int,\n) (int, error) {\n\tdefer done()\n\treturn check(a), nil\n}",
     func |-> "C", calls |-> <<Calls("done", 3), Calls("check", 4)>>],
    [text |-> "var limit = compute()", func |-> "", calls |-> <<Calls("compute", 0)>>] }

CallDeclSeqs == {ds \in SeqsUpTo(CallDecls, MaxCallDecls) : Len(ds) > 0}

CallFiles == {SourceFile("svc/c.go", FileText("package svc", ds)) : ds \in CallDeclSeqs}

CallProjects == {<<f>> : f \in CallFiles} \cup {<<MainGo, f>> : f \in CallFiles}

\* what the extraction gives for each file of the projects
FunctionsOfFile ==
  [f \in AnalyzedFiles \cup CallFiles \cup {MainGo} |->
     extractFunctions(f.content, f.path, PackageName(f.content))]
CallsOfFile ==
  [f \in AnalyzedFiles \cup CallFiles \cup {MainGo} |->
     extractFunctionCalls(f.content, f.path, PackageName(f.content))]

\* at most one file of the project cannot be read
AnalyzeInit ==
  /\ files \in AnalyzeProjects
  /\ unreadable \in {{}} \cup {{files[k].path} : k \in 1..Len(files)}
  /\ BlockIdle
  /\ RequestIdle
  /\ ListIdle
  /\ AstIdle
  /\ PathIdle
  /\ PeerIdle
  /\ KindIdle
  /\ RouteIdle
  /\ TraceIdle
  /\ SymbolIdle
  /\ ResolveIdle

\* go:analyzeCallGraph up to its file loop
AnalyzeCallGraph ==
  /\ cpc = "idle"
  /\ callGraph' = [functions |-> <<>>, calls |-> <<>>]
  /\ resIdx' = 0
  /\ cpc' = "extracting"
  /\ UNCHANGED <<files, extraVars, routeVars, traceVars, symbolVars, functionMap>>

\* one iteration of the file loop; readFileSync throws for a file that
\* cannot be read and the handler rethrows
AnalyzeFile ==
  /\ cpc = "extracting"
  /\ resIdx < Len(files)
  /\ IF files[resIdx + 1].path \in unreadable
     THEN /\ cpc' = "error"
          /\ UNCHANGED <<callGraph, resIdx>>
     ELSE /\ callGraph' =
               [functions |-> callGraph.functions \o FunctionsOfFile[files[resIdx + 1]],
                calls |-> callGraph.calls \o CallsOfFile[files[resIdx + 1]]]
          /\ resIdx' = resIdx + 1
          /\ cpc' = cpc
  /\ UNCHANGED <<files, extraVars, routeVars, traceVars, symbolVars, functionMap>>

\* after the last file resolveCallTargets is called
AnalyzeResolve ==
  /\ cpc = "extracting"
  /\ resIdx = Len(files)
  /\ functionMap' = <<>>
  /\ resIdx' = 0
  /\ cpc' = "mapping"
  /\ UNCHANGED <<files, extraVars, routeVars, traceVars, symbolVars, callGraph>>

AnalyzeNext ==
  \/ AnalyzeCallGraph
  \/ AnalyzeFile
  \/ AnalyzeResolve
  \/ MapFunction
  \/ StartResolving
  \/ ResolveCall
  \/ ReturnCallGraph

AnalyzeSpec == AnalyzeInit /\ [][AnalyzeNext]_vars

(***************************************************************************)
(* Claims about function extraction.                                       *)
(***************************************************************************)
\* the number of lines of a text
LineCount(text) == Len(Split(text, "\n"))

\* the line the k-th construct starts on, after the package clause
RECURSIVE StartLine(_, _)
StartLine(ds, k) == IF k = 1 THEN 2 ELSE StartLine(ds, k - 1) + LineCount(ds[k - 1].text)

\* the function declarations of a file made of the constructs ds: name
\* and line, in order of appearance
RECURSIVE DeclaredFrom(_, _)
DeclaredFrom(ds, k) ==
  IF k > Len(ds) THEN <<>>
  ELSE (IF ds[k].func = "" THEN <<>> ELSE <<[name |-> ds[k].func, line |-> StartLine(ds, k)]>>)
         \o DeclaredFrom(ds, k + 1)

\* the constructs a file text was written from
ConstructsOf ==
  [content \in {f.content : f \in AnalyzedFiles} |->
     CHOOSE ds \in TopDeclSeqs : \E c \in PackageClauses : FileText(c, ds) = content]

NameAndLine(fs) == [k \in 1..Len(fs) |-> [name |-> fs[k].name, line |-> fs[k].line]]

\* C12: once a file with N top-level function declarations was extracted,
\* the graph holds exactly N FunctionDef entries for it, in order of
\* appearance, each with the name and the 1-based line of its declaration.
C12_OneEntryPerDeclaration ==
  (Len(files) = 1 /\ unreadable = {} /\ cpc = "extracting" /\ resIdx = 1) =>
    NameAndLine(callGraph.functions) = DeclaredFrom(ConstructsOf[files[1].content], 1)

(***************************************************************************)
(* Block extraction: the line-based extractors of ASTParser                *)
(* (extractImportBlock, extractTypeBlock, extractFunctionBlock) and the    *)
(* character-based extractFunctionBody.  Indices are 0-based as in the     *)
(* source: lines[i] of the source is lines[i + 1] here.                    *)
(***************************************************************************)
\* the while loop of the extractors: i is the line to look at, the value
\* is i when the loop ends
RECURSIVE BlockLoop(_, _, _, _, _)
BlockLoop(lines, i, braceCount, open, close) ==
  IF i < Len(lines) /\ braceCount > 0
  THEN LET line == lines[i + 1]
           opened == IF Includes(line, open) THEN braceCount + 1 ELSE braceCount
           closed == IF Includes(line, close) THEN opened - 1 ELSE opened
       IN BlockLoop(lines, i + 1, closed, open, close)
  ELSE i

\* the body the three extractors share, for the delimiters open and close
DelimitedBlock(lines, startIndex, open, close) ==
  IF Includes(lines[startIndex + 1], open)
  THEN LET i == BlockLoop(lines, startIndex + 1, 1, open, close)
       IN [content |-> JoinWith(SubSeq(lines, startIndex + 1, i), "\n"), endIndex |-> i - 1]
  ELSE [content |-> lines[startIndex + 1], endIndex |-> startIndex]

extractImportBlock(lines, startIndex) == DelimitedBlock(lines, startIndex, "(", ")")
extractTypeBlock(lines, startIndex) == DelimitedBlock(lines, startIndex, "{", "}")
extractFunctionBlock(lines, startIndex) == DelimitedBlock(lines, startIndex, "{", "}")

\* bodyEnd of extractFunctionBody, 0-based; -1 when no body was found
FunctionBodyEnd(content, startIndex) ==
  LET st == ScanRange(ScanStart, content, startIndex + 1, Len(content))
  IN IF st.bodyStart # 0 /\ st.bodyEnd # 0 THEN st.bodyEnd - 1 ELSE -1

(***************************************************************************)
(* The files blocks are extracted from: top-level constructs, each on      *)
(* lines of its own.                                                       *)
(***************************************************************************)
MaxBlocks == 2

BlockDecls ==
  { [text |-> "type S struct {\n\tName string\n}", kind |-> "type"],
    [text |-> "type E struct{}", kind |-> "type"],
    [text |-> "type I interface {\n\t// M is one of {get, set}\n\tM()\n}", kind |-> "type"],
    [text |-> "func A() {\n\tlog(\"foo{bar\")\n}", kind |-> "func"],
    [text |-> "func B() {\n\tif x {\n\t\ty()\n\t} else {\n\t\tz()\n\t}\n}", kind |-> "func"],
    [text |-> "func C() {\n\tz() // ends the block }\n\ty()\n}", kind |-> "func"],
    [text |-> "func D() { return }", kind |-> "func"],
    [text |-> "func F() {\n\tx := [][]int{{\n\t\t1,\n\t}}\n\tuse(x)\n}", kind |-> "func"],
    [text |-> "func G() {\n\tm := map[string][]int{\n\t\t\"a\": {\n\t\t\t1,\n\t\t}}\n\tuse(m)\n}",
     kind |-> "func"],
    [text |-> "import (\n\t\"fmt\"\n)", kind |-> "import"],
    [text |-> "import \"fmt\"", kind |-> "import"] }

BlockFiles ==
  {SourceFile("a.go", FileText("package a", ds)) : ds \in SeqsUpTo(BlockDecls, MaxBlocks)}

\* the constructs a file text was written from
BlocksOf ==
  [content \in {f.content : f \in BlockFiles} |->
     CHOOSE ds \in SeqsUpTo(BlockDecls, MaxBlocks) : FileText("package a", ds) = content]

\* the 0-based index of the first and of the last line of the k-th construct
FirstLine(ds, k) == StartLine(ds, k) - 1
LastLine(ds, k) == FirstLine(ds, k) + LineCount(ds[k].text) - 1

\* the 0-based position of the first character of line i (0-based)
LineOffset(lines, i) == Len(JoinWith(SubSeq(lines, 1, i), "\n")) + (IF i > 0 THEN 1 ELSE 0)

BlockInit ==
  /\ files \in {<<f>> : f \in BlockFiles}
  /\ AllReadable
  /\ BlockIdle
  /\ RequestIdle
  /\ ListIdle
  /\ AstIdle
  /\ PathIdle
  /\ PeerIdle
  /\ KindIdle
  /\ RouteIdle
  /\ TraceIdle
  /\ SymbolIdle
  /\ ResolveIdle

\* the lines of the file and the constructs that start on them
BlockLines == Split(files[1].content, "\n")
BlockStarts(kind) ==
  LET ds == BlocksOf[files[1].content]
  IN {FirstLine(ds, k) : k \in {j \in 1..Len(ds) : ds[j].kind = kind}}

Extracted(extractor, startIndex, result) ==
  /\ block' = <<[extractor |-> extractor, startIndex |-> startIndex,
                 endIndex |-> result.endIndex, content |-> result.content]>>
  /\ UNCHANGED <<files, unreadable, requestVars, listVars, astVars, pathVars, peer, kindVars, routeVars, traceVars, symbolVars,
                 resolveVars>>

\* parseGoContent reaches an import clause
ExtractImportBlock ==
  /\ block = <<>>
  /\ \E startIndex \in BlockStarts("import") :
       Extracted("import", startIndex, extractImportBlock(BlockLines, startIndex))

\* parseGoContent reaches a struct or interface type
ExtractTypeBlock ==
  /\ block = <<>>
  /\ \E startIndex \in BlockStarts("type") :
       Extracted("type", startIndex, extractTypeBlock(BlockLines, startIndex))

\* parseGoContent reaches a function
ExtractFunctionBlock ==
  /\ block = <<>>
  /\ \E startIndex \in BlockStarts("func") :
       Extracted("func", startIndex, extractFunctionBlock(BlockLines, startIndex))

\* extractFunctionCallsFromFunction reaches a function: startIndex is the
\* position of the declaration in the text, endIndex is bodyEnd
ExtractFunctionBody ==
  /\ block = <<>>
  /\ \E line \in BlockStarts("func") :
       LET startIndex == LineOffset(BlockLines, line)
       IN Extracted("body", startIndex,
                    [endIndex |-> FunctionBodyEnd(files[1].content, startIndex),
                     content |-> extractFunctionBody(files[1].content, startIndex + 1)])

BlockNext ==
  ExtractImportBlock \/ ExtractTypeBlock \/ ExtractFunctionBlock \/ ExtractFunctionBody

BlockSpec == BlockInit /\ [][BlockNext]_vars

(***************************************************************************)
(* Claims about block extraction.                                          *)
(***************************************************************************)
\* the construct the extracted block was started on
BlockConstruct ==
  LET ds == BlocksOf[files[1].content]
      b == block[1]
  IN CHOOSE k \in 1..Len(ds) :
       IF b.extractor = "body"
       THEN LineOffset(BlockLines, FirstLine(ds, k)) = b.startIndex
       ELSE FirstLine(ds, k) = b.startIndex

\* the construct holds a string literal with an unmatched { or a brace
\* inside a line comment
BraceInStringOrComment(text) == Includes(text, "\"foo{bar\"") \/ Includes(text, "//")

\* the extraction ended on the last line of its construct, and for
\* extractFunctionBody on its last character
EndsAtRealClose ==
  LET ds == BlocksOf[files[1].content]
      k == BlockConstruct
  IN IF block[1].extractor = "body"
     THEN block[1].endIndex = LineOffset(BlockLines, LastLine(ds, k)) + Len(BlockLines[LastLine(ds, k) + 1]) - 1
     ELSE block[1].endIndex = LastLine(ds, k)

\* C13: a block extracted from a struct, interface or function that holds
\* a string literal with an unmatched { or a brace inside a line comment
\* ends exactly at the closing } of the construct: not earlier, and
\* without the lines that follow.
C13_StringsAndCommentsIgnored ==
  (block # <<>> /\ BraceInStringOrComment(BlocksOf[files[1].content][BlockConstruct].text))
    => EndsAtRealClose

\* C14: the end index the line-based extractors return is the line with
\* the delimiter matching the opening one, also when lines hold several
\* opens or closes or both, and when the construct opens and closes on its
\* first line (end index = start index).
C14_EndIsMatchingDelimiterLine ==
  (/\ block # <<>>
   /\ block[1].extractor # "body"
   /\ ~BraceInStringOrComment(BlocksOf[files[1].content][BlockConstruct].text))
    => EndsAtRealClose

(***************************************************************************)
(* Claims about unreadable files in project-wide scans.                    *)
(***************************************************************************)
\* what the extraction gives for the files that can be read, in order
RECURSIVE FunctionsOfReadable(_)
FunctionsOfReadable(goFiles) ==
  IF Len(goFiles) = 0 THEN <<>>
  ELSE (IF Head(goFiles).path \in unreadable THEN <<>> ELSE FunctionsOfFile[Head(goFiles)])
         \o FunctionsOfReadable(Tail(goFiles))

\* C15: a failure to read one source file is isolated: the call graph
\* analysis never fails, and the graph it returns holds the functions of
\* all the files that could be read.
C15_ReadFailureIsolated ==
  /\ cpc # "error"
  /\ cpc = "done" => callGraph.functions = FunctionsOfReadable(files)

(***************************************************************************)
(* Trace requests on projects of which one file may be unreadable.         *)
(***************************************************************************)
TraceReadInit ==
  /\ files \in TraceProjects
  /\ unreadable \in {{}} \cup {{files[k].path} : k \in 1..Len(files)}
  /\ BlockIdle
  /\ RequestIdle
  /\ ListIdle
  /\ AstIdle
  /\ PathIdle
  /\ PeerIdle
  /\ KindIdle
  /\ RouteIdle
  /\ TraceIdle
  /\ SymbolIdle
  /\ ResolveIdle

TraceReadSpec == TraceReadInit /\ [][TraceNext]_vars

(***************************************************************************)
(* Claims about the failures of a trace request.                           *)
(***************************************************************************)
\* the request names a route of the project
ValidRequest == \E i \in 1..Len(RoutesOf[files]) : RoutesOf[files][i].id = routeId

\* C17: a trace request for a valid route never fails because a file of
\* the project cannot be read, and the graph it returns holds the route
\* node and a handler node.
C17_TraceSurvivesUnreadableFile ==
  /\ (routeId # "" /\ ValidRequest) => tpc # "error"
  /\ (tpc = "done" /\ ValidRequest) =>
       /\ Len(nodes) >= 2
       /\ nodes[1].type = "route"
       /\ nodes[2].type = "handler"

\* C18: a trace request whose route ID is the ID of no route of the
\* project is rejected with an error whose message names the ID; no node,
\* no edge and no route come back and no function is entered.
C18_UnknownRouteRejected ==
  (routeId # "" /\ ~ValidRequest) =>
    /\ tpc = "error"
    /\ Includes(failure, routeId)
    /\ targetRoute = <<>>
    /\ nodes = <<>>
    /\ edges = <<>>
    /\ processedFunctions = {}
    /\ stack = <<>>
    /\ expanded = <<>>

\* a project with routes was asked for a route it does not have
C18_Witness ==
  /\ routeId = "no-such-route"
  /\ Len(RoutesOf[files]) > 0
  /\ tpc = "error"
  /\ failure = RouteNotFound("no-such-route")

(***************************************************************************)
(* File discovery: getGoFiles (call graph, symbol lookup, symbol usages)   *)
(* and getGoFilesRecursive (route discovery, trace, AST analysis).  A      *)
(* directory entry is a file or a directory with its own entries; a        *)
(* directory whose path is in `unreadable` makes readdirSync throw.        *)
(***************************************************************************)
File(name) == [name |-> name, isDirectory |-> FALSE, items |-> <<>>]
Dir(name, items) == [name |-> name, isDirectory |-> TRUE, items |-> items]

\* path.join(dir, item.name)
JoinPath(dir, name) == dir \o "/" \o name

\* the two functions differ by the directory names they skip
SkippedByGetGoFiles == {"vendor"}
SkippedByGetGoFilesRecursive == {"vendor", "node_modules"}

\* the loop over the items of a directory, from item i on
RECURSIVE ListItems(_, _, _, _)
ListItems(dir, items, i, skipped) ==
  IF i > Len(items) THEN <<>>
  ELSE LET item == items[i]
           fullPath == JoinPath(dir, item.name)
           rest == ListItems(dir, items, i + 1, skipped)
       IN IF item.isDirectory /\ ~StartsWith(item.name, ".") /\ item.name \notin skipped
          THEN (IF fullPath \in unreadable THEN <<>>
                ELSE ListItems(fullPath, item.items, 1, skipped)) \o rest
          ELSE IF ~item.isDirectory /\ EndsWith(item.name, ".go")
                  /\ ~EndsWith(item.name, "_test.go")
          THEN <<fullPath>> \o rest
          ELSE rest

getGoFiles(dir, items) == ListItems(dir, items, 1, SkippedByGetGoFiles)
getGoFilesRecursive(dir, items) == ListItems(dir, items, 1, SkippedByGetGoFilesRecursive)

(***************************************************************************)
(* The project directories: up to MaxEntries entries, files and            *)
(* directories of one file or of one directory.                            *)
(***************************************************************************)
MaxEntries == 2

ProjectPath == "/p"

FileNames == {"main.go", "main_test.go", "README.md"}
DirNames == {"svc", "vendor", "node_modules", ".git"}

Entries ==
  {File(f) : f \in FileNames}
    \cup {Dir(d, <<File(f)>>) : d \in DirNames, f \in {"x.go", "x_test.go"}}
    \cup {Dir("svc", <<Dir(d, <<File("y.go")>>)>>) : d \in DirNames}

\* the entries of a directory have different names
DistinctNames(items) == \A j, k \in 1..Len(items) : items[j].name = items[k].name => j = k

ProjectTrees == {items \in SeqsUpTo(Entries, MaxEntries) : DistinctNames(items)}

ListInit ==
  /\ tree \in ProjectTrees
  /\ lister = ""
  /\ scanned = <<>>
  /\ files = <<>>
  /\ unreadable \in {{}, {JoinPath(ProjectPath, "svc")}}
  /\ BlockIdle
  /\ AstIdle
  /\ PathIdle
  /\ PeerIdle
  /\ KindIdle
  /\ RequestIdle
  /\ RouteIdle
  /\ TraceIdle
  /\ SymbolIdle
  /\ ResolveIdle

\* go:analyzeCallGraph, findSymbolInProject and go:findSymbolUsage list
\* the project with getGoFiles
GetGoFiles ==
  /\ lister = ""
  /\ lister' = "getGoFiles"
  /\ scanned' = getGoFiles(ProjectPath, tree)
  /\ UNCHANGED <<files, unreadable, block, requestVars, tree, astVars, pathVars, peer, kindVars,
                 routeVars, traceVars, symbolVars,
                 resolveVars>>

\* route discovery, the trace and the AST analysis list it with
\* getGoFilesRecursive
GetGoFilesRecursive ==
  /\ lister = ""
  /\ lister' = "getGoFilesRecursive"
  /\ scanned' = getGoFilesRecursive(ProjectPath, tree)
  /\ UNCHANGED <<files, unreadable, block, requestVars, tree, astVars, pathVars, peer, kindVars,
                 routeVars, traceVars, symbolVars,
                 resolveVars>>

ListNext == GetGoFiles \/ GetGoFilesRecursive

ListSpec == ListInit /\ [][ListNext]_vars

(***************************************************************************)
(* Claims about file discovery.                                            *)
(***************************************************************************)
\* every file under a directory: its path, its name and the names of the
\* directories above it
RECURSIVE FilesUnder(_, _, _)
FilesUnder(dir, items, above) ==
  UNION {IF items[i].isDirectory
         THEN FilesUnder(JoinPath(dir, items[i].name), items[i].items, above \cup {items[i].name})
         ELSE {[path |-> JoinPath(dir, items[i].name), name |-> items[i].name, above |-> above]}
         : i \in 1..Len(items)}

ExcludedDirectory(name) == StartsWith(name, ".") \/ name = "vendor" \/ name = "node_modules"

\* the files the claim wants scanned
ToScan ==
  {f.path : f \in {g \in FilesUnder(ProjectPath, tree, {}) :
                     /\ EndsWith(g.name, ".go")
                     /\ ~EndsWith(g.name, "_test.go")
                     /\ \A d \in g.above : ~ExcludedDirectory(d)}}

\* C19: whichever function lists the project, no file under a directory
\* whose name starts with '.', is "vendor" or is "node_modules" and no
\* _test.go file is scanned, and every other .go file under the root is
\* (all directories being readable).
C19_OnlyProjectSourcesScanned ==
  (lister # "" /\ unreadable = {}) => Range(scanned) = ToScan

(***************************************************************************)
(* The declaration extractor (ASTParser.parseFile).  Of every declaration  *)
(* the model keeps what identifies it: its name and its line (and the      *)
(* path of an import, the receiver of a method, the type of a type         *)
(* declaration or variable); snippets, fields, parameters and attached     *)
(* comments are left out.  The texts hold no back-quoted string.           *)
(***************************************************************************)
\* /type\s+(\w+)\s+struct/ and /type\s+(\w+)\s+interface/
typeNameRegex(keyword) ==
  <<Lit("type"), Plus("\\s"), Open(1), Plus("\\w"), Close(1), Plus("\\s"), Lit(keyword)>>
\* /type\s+(\w+)\s+(\w+)/
typeDeclRegex ==
  <<Lit("type"), Plus("\\s"), Open(1), Plus("\\w"), Close(1), Plus("\\s"),
    Open(2), Plus("\\w"), Close(2)>>
\* /func\s+(?:\(([^)]+)\)\s+)?(\w+)\(([^)]*)\)\s*(.*)/
funcSignatureRegex ==
  <<Lit("func"), Plus("\\s"),
    Opt(<<Lit("("), Open(1), Plus("[^)]"), Close(1), Lit(")"), Plus("\\s")>>),
    Open(2), Plus("\\w"), Close(2), Lit("("), Open(3), Star("[^)]"), Close(3), Lit(")"),
    Star("\\s"), Open(4), Star("."), Close(4)>>
\* /^(\w+)\s*=\s*(.+)/
constRegex ==
  <<Open(1), Plus("\\w"), Close(1), Star("\\s"), Lit("="), Star("\\s"),
    Open(2), Plus("."), Close(2)>>
\* /^(\w+)\s+(\w+)/
varRegex == <<Open(1), Plus("\\w"), Close(1), Plus("\\s"), Open(2), Plus("\\w"), Close(2)>>
\* /import\s+(?:"([^"]+)"|...|\(|([^"\s]+)\s+"([^"]+)")/ (the back-quoted
\* alternative is left out)
importRegex ==
  <<Lit("import"), Plus("\\s"),
    AltGroup(<< <<Lit("\""), Open(1), Plus("[^\"]"), Close(1), Lit("\"")>>,
                <<Lit("(")>>,
                <<Open(3), Plus("[^\"\\s]"), Close(3), Plus("\\s"), Lit("\""),
                  Open(4), Plus("[^\"]"), Close(4), Lit("\"")>> >>)>>

\* extractConstBlock and extractVarBlock: up to the first line that starts
\* with ')', or to the end of the file
RECURSIVE ParenLoop(_, _)
ParenLoop(lines, i) ==
  IF i < Len(lines) /\ ~StartsWith(Trim(lines[i + 1]), ")") THEN ParenLoop(lines, i + 1) ELSE i

ParenBlock(lines, startIndex) ==
  IF Includes(lines[startIndex + 1], "(")
  THEN LET i == ParenLoop(lines, startIndex + 1)
       IN [content |-> JoinWith(SubSeq(lines, startIndex + 1, IF i < Len(lines) THEN i + 1 ELSE i),
                                "\n"),
           endIndex |-> i]
  ELSE [content |-> lines[startIndex + 1], endIndex |-> startIndex]

extractConstBlock(lines, startIndex) == ParenBlock(lines, startIndex)
extractVarBlock(lines, startIndex) == ParenBlock(lines, startIndex)

\* the lines of a block that its parser looks at
Skipped(trimmedLine) == trimmedLine = "" \/ trimmedLine = "(" \/ trimmedLine = ")"

RECURSIVE parseImportLines(_, _)
parseImportLines(blockLines, startLine) ==
  IF Len(blockLines) = 0 THEN <<>>
  ELSE LET trimmedLine == Trim(Head(blockLines))
           importMatch == Exec(importRegex, trimmedLine, 1)
           path == IF Group(importMatch, trimmedLine, 1) # "" THEN Group(importMatch, trimmedLine, 1)
                   ELSE Group(importMatch, trimmedLine, 4)
       IN (IF ~Skipped(trimmedLine) /\ importMatch.ok /\ path # ""
           THEN <<[path |-> path, line |-> startLine]>> ELSE <<>>)
            \o parseImportLines(Tail(blockLines), startLine)
parseImportBlock(content, startLine) == parseImportLines(Split(content, "\n"), startLine)

RECURSIVE parseConstLines(_, _)
parseConstLines(blockLines, startLine) ==
  IF Len(blockLines) = 0 THEN <<>>
  ELSE LET trimmedLine == Trim(Head(blockLines))
           constMatch == Run(constRegex, trimmedLine, 1)
       IN (IF ~Skipped(trimmedLine) /\ ~StartsWith(trimmedLine, "const") /\ constMatch.ok
           THEN <<[name |-> Group(constMatch, trimmedLine, 1), line |-> startLine]>> ELSE <<>>)
            \o parseConstLines(Tail(blockLines), startLine)
parseConstBlock(content, startLine) == parseConstLines(Split(content, "\n"), startLine)

RECURSIVE parseVarLines(_, _)
parseVarLines(blockLines, startLine) ==
  IF Len(blockLines) = 0 THEN <<>>
  ELSE LET trimmedLine == Trim(Head(blockLines))
           varMatch == Run(varRegex, trimmedLine, 1)
       IN (IF ~Skipped(trimmedLine) /\ ~StartsWith(trimmedLine, "var") /\ varMatch.ok
           THEN <<[name |-> Group(varMatch, trimmedLine, 1),
                   type |-> Group(varMatch, trimmedLine, 2), line |-> startLine]>> ELSE <<>>)
            \o parseVarLines(Tail(blockLines), startLine)
parseVarBlock(content, startLine) == parseVarLines(Split(content, "\n"), startLine)

\* parseStruct and parseInterface: the name, 'unknown' without a match
parseTypeName(content, startLine, keyword) ==
  LET firstLine == Trim(Split(content, "\n")[1])
      nameMatch == Exec(typeNameRegex(keyword), firstLine, 1)
  IN [name |-> IF nameMatch.ok THEN Group(nameMatch, firstLine, 1) ELSE "unknown",
      line |-> startLine]
parseStruct(content, startLine) == parseTypeName(content, startLine, "struct")
parseInterface(content, startLine) == parseTypeName(content, startLine, "interface")

\* <<TypeDeclaration>>, <<>> for null
parseTypeDeclaration(line, lineNumber) ==
  LET typeMatch == Exec(typeDeclRegex, line, 1)
  IN IF typeMatch.ok
     THEN <<[name |-> Group(typeMatch, line, 1), type |-> Group(typeMatch, line, 2),
             line |-> lineNumber]>>
     ELSE <<>>

parseFunction(content, startLine) ==
  LET firstLine == Trim(Split(content, "\n")[1])
      funcMatch == Exec(funcSignatureRegex, firstLine, 1)
  IN IF ~funcMatch.ok THEN [name |-> "unknown", line |-> startLine, receiver |-> ""]
     ELSE [name |-> Group(funcMatch, firstLine, 2), line |-> startLine,
           receiver |-> Trim(Group(funcMatch, firstLine, 1))]

\* extractComments from line i on (0-based)
RECURSIVE CommentEnd(_, _, _)
CommentEnd(lines, j, i) ==
  IF j >= Len(lines) THEN i
  ELSE IF Includes(lines[j + 1], "*/") THEN j
  ELSE CommentEnd(lines, j + 1, i)

RECURSIVE CommentsFrom(_, _)
CommentsFrom(lines, i) ==
  IF i >= Len(lines) THEN <<>>
  ELSE LET line == Trim(lines[i + 1])
       IN IF StartsWith(line, "//")
          THEN <<[line |-> i + 1, type |-> "line"]>> \o CommentsFrom(lines, i + 1)
          ELSE IF StartsWith(line, "/*")
          THEN <<[line |-> i + 1, type |-> "block"]>>
                 \o CommentsFrom(lines, CommentEnd(lines, i + 1, i) + 1)
          ELSE CommentsFrom(lines, i + 1)
extractComments(content) == CommentsFrom(Split(content, "\n"), 0)

\* the structure parseFile starts from
EmptyStructure(relativePath) ==
  [filePath |-> relativePath, packageName |-> "", imports |-> <<>>, types |-> <<>>,
   constants |-> <<>>, variables |-> <<>>, functions |-> <<>>, structs |-> <<>>,
   interfaces |-> <<>>, comments |-> <<>>]

\* the while loop of parseGoContent from line i on (0-based)
RECURSIVE ParseFrom(_, _, _)
ParseFrom(lines, i, structure) ==
  IF i >= Len(lines) THEN structure
  ELSE
    LET trimmedLine == Trim(lines[i + 1])
        lineNumber == i + 1
    IN IF StartsWith(trimmedLine, "import")
       THEN LET importBlock == extractImportBlock(lines, i)
            IN ParseFrom(lines, importBlock.endIndex + 1,
                         [structure EXCEPT !.imports = @ \o parseImportBlock(importBlock.content, lineNumber)])
       ELSE IF StartsWith(trimmedLine, "type") /\ Includes(trimmedLine, "struct")
       THEN LET structBlock == extractTypeBlock(lines, i)
            IN ParseFrom(lines, structBlock.endIndex + 1,
                         [structure EXCEPT !.structs = Append(@, parseStruct(structBlock.content, lineNumber))])
       ELSE IF StartsWith(trimmedLine, "type") /\ Includes(trimmedLine, "interface")
       THEN LET interfaceBlock == extractTypeBlock(lines, i)
            IN ParseFrom(lines, interfaceBlock.endIndex + 1,
                         [structure EXCEPT
                            !.interfaces = Append(@, parseInterface(interfaceBlock.content, lineNumber))])
       ELSE IF StartsWith(trimmedLine, "type")
       THEN ParseFrom(lines, i + 1,
                      [structure EXCEPT !.types = @ \o parseTypeDeclaration(trimmedLine, lineNumber)])
       ELSE IF StartsWith(trimmedLine, "const")
       THEN LET constBlock == extractConstBlock(lines, i)
            IN ParseFrom(lines, constBlock.endIndex + 1,
                         [structure EXCEPT !.constants = @ \o parseConstBlock(constBlock.content, lineNumber)])
       ELSE IF StartsWith(trimmedLine, "var")
       THEN LET varBlock == extractVarBlock(lines, i)
            IN ParseFrom(lines, varBlock.endIndex + 1,
                         [structure EXCEPT !.variables = @ \o parseVarBlock(varBlock.content, lineNumber)])
       ELSE IF StartsWith(trimmedLine, "func")
       THEN LET funcBlock == extractFunctionBlock(lines, i)
            IN ParseFrom(lines, funcBlock.endIndex + 1,
                         [structure EXCEPT !.functions = Append(@, parseFunction(funcBlock.content, lineNumber))])
       ELSE ParseFrom(lines, i + 1, structure)

parseGoContent(content, structure) ==
  ParseFrom(Split(content, "\n"), 0, [structure EXCEPT !.packageName =
                                        LET packageMatch == Exec(packageRegex, content, 1)
                                        IN IF packageMatch.ok THEN Group(packageMatch, content, 1)
                                           ELSE @])

\* parseFile for a file that can be read
parseFile(file) ==
  parseGoContent(file.content,
                 [EmptyStructure(file.path) EXCEPT !.comments = extractComments(file.content)])

(***************************************************************************)
(* The AST handlers: ast:analyzeFile and ast:getDuplicateSymbols.          *)
(***************************************************************************)
MaxAstDecls == 2

\* a top-level construct: its text and the symbols it declares, each with
\* its kind, its name and the offset of its line in the text
Declares(kind, name, offset) == [type |-> kind, name |-> name, offset |-> offset]

AstDecls ==
  {[text |-> "func init() {\n\tsetup()\n}", declares |-> <<Declares("function", "init", 0)>>],
   [text |-> "func (s *Store) Get(id string) error {\n\treturn nil\n}",
    declares |-> <<Declares("function", "Get", 0)>>],
   [text |-> "type Store struct {\n\tdb string\n}", declares |-> <<Declares("struct", "Store", 0)>>],
   [text |-> "type Getter interface {\n\tGet(id string) error\n}",
    declares |-> <<Declares("interface", "Getter", 0)>>],
   [text |-> "type ID string", declares |-> <<Declares("type", "ID", 0)>>],
   [text |-> "const Limit = 10", declares |-> <<Declares("constant", "Limit", 0)>>],
   [text |-> "const (\n\tMin = 1\n\tMax = 9\n)",
    declares |-> <<Declares("constant", "Min", 1), Declares("constant", "Max", 2)>>],
   [text |-> "var (\n\t_ Getter = (*Store)(nil)\n\t_ Getter = (*Cache)(nil)\n)",
    declares |-> <<>>],
   [text |-> "var (\n\tcount int\n)", declares |-> <<Declares("variable", "count", 1)>>]}

\* a file declares a name once; only init may be declared again
Redeclares(ds) ==
  \E j, k \in 1..Len(ds) :
    /\ j < k
    /\ \E d \in Range(ds[j].declares), e \in Range(ds[k].declares) :
         d.type = e.type /\ d.name = e.name /\ d.name # "init"

AstDeclSeqs == {ds \in SeqsUpTo(AstDecls, MaxAstDecls) : Len(ds) > 0 /\ ~Redeclares(ds)}

AstFileA == {SourceFile("store/a.go", FileText("package store", ds)) : ds \in AstDeclSeqs}
AstFileB == {SourceFile("cache/b.go", FileText("package cache", <<d>>)) : d \in AstDecls}

AstProjects == {<<a, b>> : a \in AstFileA, b \in AstFileB}

\* what parseFile returns for each file of the model
StructureOf == [file \in AstFileA \cup AstFileB |-> parseFile(file)]

AstInit ==
  /\ files \in AstProjects
  /\ unreadable \in {{}} \cup {{files[k].path} : k \in 1..Len(files)}
  /\ AstIdle
  /\ PathIdle
  /\ PeerIdle
  /\ KindIdle
  /\ BlockIdle
  /\ RequestIdle
  /\ ListIdle
  /\ RouteIdle
  /\ TraceIdle
  /\ SymbolIdle
  /\ ResolveIdle

\* the error readFileSync throws, as the handlers answer it
CannotRead(path) == "EACCES: permission denied, open '" \o path \o "'"

\* ast:analyzeFile: parseFile reads the file before its try block, so a
\* failed read is caught by the handler
AnalyzeFileAST ==
  /\ apc = "idle"
  /\ \E k \in 1..Len(files) :
       astResult' = IF files[k].path \in unreadable
                    THEN <<[success |-> FALSE, filePath |-> files[k].path,
                            error |-> CannotRead(files[k].path)]>>
                    ELSE <<[success |-> TRUE, filePath |-> files[k].path,
                            structure |-> StructureOf[files[k]] ]>>
  /\ apc' = "done"
  /\ UNCHANGED <<files, unreadable, block, requestVars, listVars, pathVars, peer, kindVars, symbols, astIdx,
                 routeVars, traceVars, symbolVars, resolveVars>>

ProjectSymbols(entries, kind, file) ==
  [k \in 1..Len(entries) |->
     [name |-> entries[k].name, type |-> kind, file |-> file, line |-> entries[k].line]]

\* what analyzeProjectSymbols pushes for one structure
SymbolsOf(structure) ==
  ProjectSymbols(structure.functions, "function", structure.filePath)
    \o ProjectSymbols(structure.structs, "struct", structure.filePath)
    \o ProjectSymbols(structure.interfaces, "interface", structure.filePath)
    \o ProjectSymbols(structure.types, "type", structure.filePath)
    \o ProjectSymbols(structure.constants, "constant", structure.filePath)
    \o ProjectSymbols(structure.variables, "variable", structure.filePath)

SymbolKey(sym) == sym.type \o ":" \o sym.name

\* the symbolMap entries with more than one symbol
DuplicatesOf(syms) ==
  LET WithKey(key) == SelectSeq(syms, LAMBDA sym : SymbolKey(sym) = key)
  IN [key \in {key \in {SymbolKey(sym) : sym \in Range(syms)} : Len(WithKey(key)) > 1} |->
        WithKey(key)]

\* ast:getDuplicateSymbols up to the file loop of analyzeProjectSymbols
GetDuplicateSymbols ==
  /\ apc = "idle"
  /\ apc' = "collecting"
  /\ symbols' = <<>>
  /\ astIdx' = 0
  /\ UNCHANGED <<files, unreadable, block, requestVars, listVars, pathVars, peer, kindVars, astResult,
                 routeVars, traceVars, symbolVars, resolveVars>>

\* one iteration of the file loop; a failed read ends the handler in its
\* catch block
CollectSymbols ==
  /\ apc = "collecting"
  /\ astIdx < Len(files)
  /\ IF files[astIdx + 1].path \in unreadable
     THEN /\ astResult' = <<[success |-> FALSE, error |-> CannotRead(files[astIdx + 1].path)]>>
          /\ apc' = "done"
          /\ UNCHANGED <<symbols, astIdx>>
     ELSE /\ symbols' = symbols \o SymbolsOf(StructureOf[files[astIdx + 1]])
          /\ astIdx' = astIdx + 1
          /\ UNCHANGED <<astResult, apc>>
  /\ UNCHANGED <<files, unreadable, block, requestVars, listVars, pathVars, peer, kindVars,
                 routeVars, traceVars, symbolVars, resolveVars>>

\* the grouping, after the last file
GroupSymbols ==
  /\ apc = "collecting"
  /\ astIdx = Len(files)
  /\ astResult' = <<[success |-> TRUE, duplicates |-> DuplicatesOf(symbols)]>>
  /\ apc' = "done"
  /\ UNCHANGED <<files, unreadable, block, requestVars, listVars, pathVars, peer, kindVars, symbols, astIdx,
                 routeVars, traceVars, symbolVars, resolveVars>>

AstNext == AnalyzeFileAST \/ GetDuplicateSymbols \/ CollectSymbols \/ GroupSymbols

AstSpec == AstInit /\ [][AstNext]_vars

\* the declaration collections of a CodeStructure
Declarations(structure) ==
  structure.imports \o structure.types \o structure.constants \o structure.variables
    \o structure.functions \o structure.structs \o structure.interfaces

\* C16: parseFile on a file that cannot be read returns an empty
\* CodeStructure, all declaration collections empty, and raises no error to
\* its caller: ast:analyzeFile answers success with that structure.
C16_UnreadableFileParsesEmpty ==
  \A k \in 1..Len(files) :
    (/\ Len(astResult) = 1
     /\ "filePath" \in DOMAIN astResult[1]
     /\ astResult[1].filePath = files[k].path
     /\ files[k].path \in unreadable)
      => /\ astResult[1].success
         /\ Declarations(astResult[1].structure) = <<>>

\* the constructs a file of the model was written from
AstConstructsOf ==
  [file \in AstFileA \cup AstFileB |->
     CHOOSE ds \in SeqsUpTo(AstDecls, MaxAstDecls) :
       \E c \in {"package store", "package cache"} : FileText(c, ds) = file.content]

\* the symbols the project declares: kind, name, file and line
DeclaredSymbols ==
  {[name |-> d.name, type |-> d.type, file |-> files[k].path,
    line |-> StartLine(AstConstructsOf[files[k]], j) + d.offset] :
     <<k, j, d>> \in {<<k, j, d>> \in (1..Len(files)) \X (1..MaxAstDecls + 1)
                                       \X UNION {Range(c.declares) : c \in AstDecls} :
                        /\ j <= Len(AstConstructsOf[files[k]])
                        /\ d \in Range(AstConstructsOf[files[k]][j].declares)}}

\* the (kind, name) keys declared at two or more locations
DeclaredTwice ==
  {SymbolKey(d) : d \in {d \in DeclaredSymbols :
                           \E e \in DeclaredSymbols : SymbolKey(e) = SymbolKey(d) /\ e # d}}

\* a returned group: two members or more, one kind and name, no two at the
\* same (file, line)
ProperGroup(group) ==
  /\ Len(group) >= 2
  /\ \A j, k \in 1..Len(group) :
       /\ group[j].type = group[k].type
       /\ group[j].name = group[k].name
       /\ j # k => <<group[j].file, group[j].line>> # <<group[k].file, group[k].line>>

\* ast:getDuplicateSymbols answered for a project whose files can all be read
DuplicatesAnswered ==
  /\ unreadable = {}
  /\ Len(astResult) = 1
  /\ "filePath" \notin DOMAIN astResult[1]

\* C20: find-duplicate-symbols returns exactly the groups of symbols that
\* share (kind, name) at more than one location: every returned group has
\* two members or more, all of one kind and name and at different
\* (file, line) locations, and every (kind, name) declared at two or more
\* locations is returned.
C20_DuplicateGroupsExact ==
  DuplicatesAnswered =>
    /\ astResult[1].success
    /\ \A key \in DOMAIN astResult[1].duplicates : ProperGroup(astResult[1].duplicates[key])
    /\ \A key \in DeclaredTwice : key \in DOMAIN astResult[1].duplicates

(***************************************************************************)
(* Path resolution (fs:resolvePath).  The file system is the root          *)
(* directory with the project directory /p, whose entries are tree, and a  *)
(* directory /tmp outside the project.                                     *)
(***************************************************************************)
\* the segments of a path, without the empty ones and without "."
Segments(p) == SelectSeq(Split(p, "/"), LAMBDA seg : seg # "" /\ seg # ".")

\* lexical removal of "..": a segment followed by ".." goes with it
RECURSIVE Collapse(_, _)
Collapse(kept, segs) ==
  IF Len(segs) = 0 THEN kept
  ELSE IF Head(segs) = ".."
  THEN Collapse(IF Len(kept) = 0 THEN kept ELSE SubSeq(kept, 1, Len(kept) - 1), Tail(segs))
  ELSE Collapse(Append(kept, Head(segs)), Tail(segs))

\* path.isAbsolute
isAbsolute(p) == StartsWith(p, "/")

\* path.join of an absolute directory and a path: joined and normalised
PathJoin(dir, p) ==
  LET segs == Collapse(<<>>, Segments(dir \o "/" \o p))
  IN "/" \o JoinWith(segs, "/")

\* path.basename
basename(p) == LET segs == Segments(p) IN IF Len(segs) = 0 THEN "" ELSE segs[Len(segs)]

Root(projectItems) == <<Dir("p", projectItems), Dir("tmp", <<File("main.go")>>)>>

\* the entry of a directory with a name, <<>> without one
Entry(items, name) == SelectSeq(items, LAMBDA item : item.name = name)

RECURSIVE ExistsIn(_, _)
ExistsIn(items, segs) ==
  IF Len(segs) = 0 THEN TRUE
  ELSE LET found == Entry(items, Head(segs))
       IN /\ Len(found) > 0
          /\ \/ Len(segs) = 1
             \/ found[1].isDirectory /\ ExistsIn(found[1].items, Tail(segs))

\* existsSync
existsSync(p, projectItems) == p # "" /\ ExistsIn(Root(projectItems), Segments(p))

\* findFileRecursive from item i of a directory on: <<path>>, <<>> for null
RECURSIVE FindFrom(_, _, _, _)
FindFrom(dir, items, i, fileName) ==
  IF i > Len(items) THEN <<>>
  ELSE LET item == items[i]
           fullPath == JoinPath(dir, item.name)
       IN IF item.isDirectory /\ ~StartsWith(item.name, ".") /\ item.name # "vendor"
             /\ item.name # "node_modules"
          THEN LET found == IF fullPath \in unreadable THEN <<>>
                            ELSE FindFrom(fullPath, item.items, 1, fileName)
               IN IF found # <<>> THEN found ELSE FindFrom(dir, items, i + 1, fileName)
          ELSE IF ~item.isDirectory /\ item.name = fileName
          THEN <<fullPath>>
          ELSE FindFrom(dir, items, i + 1, fileName)

findFileRecursive(dir, items, fileName) == FindFrom(dir, items, 1, fileName)

\* the mutant: the search comes before the project-root join
resolveSearchFirst(input, projectPath, projectItems) ==
  LET projectRelativePath == PathJoin(projectPath, input)
      foundPath == findFileRecursive(projectPath, projectItems, basename(input))
  IN IF isAbsolute(input) /\ existsSync(input, projectItems) THEN input
     ELSE IF foundPath # <<>> THEN foundPath[1]
     ELSE IF existsSync(projectRelativePath, projectItems) THEN projectRelativePath
     ELSE input

resolvePath(input, projectPath, projectItems) ==
  LET projectRelativePath == PathJoin(projectPath, input)
      foundPath == findFileRecursive(projectPath, projectItems, basename(input))
  IN IF isAbsolute(input) /\ existsSync(input, projectItems) THEN input
     ELSE IF existsSync(projectRelativePath, projectItems) THEN projectRelativePath
     ELSE IF foundPath # <<>> THEN foundPath[1]
     ELSE input

\* the paths a resolution is requested for
InputPaths ==
  {"main.go", "x.go", "y.go", "svc/x.go", "vendor/x.go", "lib/x.go", "./main.go",
   "missing.go", "",
   "/tmp/main.go", "/old/main.go", "/p/svc/x.go", "/p/missing.go"}

PathInit ==
  /\ tree \in ProjectTrees
  /\ lister = ""
  /\ scanned = <<>>
  /\ files = <<>>
  /\ unreadable \in {{}, {JoinPath(ProjectPath, "svc")}}
  /\ PathIdle
  /\ PeerIdle
  /\ KindIdle
  /\ BlockIdle
  /\ AstIdle
  /\ RequestIdle
  /\ RouteIdle
  /\ TraceIdle
  /\ SymbolIdle
  /\ ResolveIdle

\* fs:resolvePath
ResolvePath ==
  /\ inputPath = <<>>
  /\ \E input \in InputPaths :
       /\ inputPath' = <<input>>
       /\ resolvedPath' = <<resolvePath(input, ProjectPath, tree)>>
  /\ UNCHANGED <<files, unreadable, block, requestVars, listVars, astVars, peer, kindVars,
                 routeVars, traceVars, symbolVars, resolveVars>>

\* the next request
NextPath ==
  /\ inputPath # <<>>
  /\ inputPath' = <<>>
  /\ resolvedPath' = <<>>
  /\ UNCHANGED <<files, unreadable, block, requestVars, listVars, astVars, peer, kindVars,
                 routeVars, traceVars, symbolVars, resolveVars>>

PathNext == ResolvePath \/ NextPath

PathSpec == PathInit /\ [][PathNext]_vars

(***************************************************************************)
(* Claims about path resolution.                                           *)
(***************************************************************************)
\* the files a search of the project visits, in the order of the walk
RECURSIVE Walk(_, _)
Walk(dir, items) ==
  IF Len(items) = 0 THEN <<>>
  ELSE LET item == Head(items)
           fullPath == JoinPath(dir, item.name)
       IN (IF ~item.isDirectory THEN <<[path |-> fullPath, name |-> item.name]>>
           ELSE IF ExcludedDirectory(item.name) \/ fullPath \in unreadable THEN <<>>
           ELSE Walk(fullPath, item.items))
            \o Walk(dir, Tail(items))

Named(name) == SelectSeq(Walk(ProjectPath, tree), LAMBDA f : f.name = name)

\* C21: resolvePath returns the first of its strategies that succeeds: the
\* input if it is absolute and exists, else the project-root join of the
\* input if that exists, else the first file the recursive search finds
\* with the base name of the input, else the input; what it returns exists
\* unless it is the input.
C21_FirstStrategyThatSucceeds ==
  resolvedPath # <<>> =>
    LET input == inputPath[1]
        joined == PathJoin(ProjectPath, input)
        named == Named(basename(input))
    IN /\ resolvedPath[1] =
            (IF isAbsolute(input) /\ existsSync(input, tree) THEN input
             ELSE IF existsSync(joined, tree) THEN joined
             ELSE IF Len(named) > 0 THEN named[1].path
             ELSE input)
       /\ resolvedPath[1] # input => existsSync(resolvedPath[1], tree)

\* a file found by the search although the join of another directory's
\* path does not exist
C21_Witness ==
  /\ resolvedPath # <<>>
  /\ inputPath[1] = "lib/x.go"
  /\ resolvedPath[1] = "/p/svc/x.go"

(***************************************************************************)
(* Concurrent requests.  Every invocation of go:traceAPIFlow builds its    *)
(* nodes, edges and processedFunctions in traceCompleteDataFlow; a second  *)
(* invocation in flight is the record peer, and its steps are those of the *)
(* first written as a function of the invocation.                          *)
(***************************************************************************)
\* the mutant: one processedFunctions set for all invocations
ProcessedOfAll(own, others) == own \cup others

\* the processedFunctions an invocation passes on: its own (others are
\* those of the invocations in flight)
ProcessedOf(own, others) == own

\* the request once its route is found: the route node, the handler node
\* and their edge, and the handler entered
TraceOfRoute(id, route, handlerNode, e) ==
  [routeId |-> id, failure |-> "",
   nodes |-> << [id |-> "route-" \o route.id, type |-> "route",
                 name |-> route.method \o " " \o route.path,
                 file |-> route.handlerFile, line |-> route.handlerLine],
                handlerNode >>,
   edges |-> << [source |-> "route-" \o route.id, target |-> handlerNode.id,
                 dataType |-> "HTTP Request", transformation |-> ""] >>,
   processedFunctions |-> e.processed,
   stack |-> e.frames,
   tpc |-> IF e.frames = <<>> THEN "done" ELSE "tracing"]

TraceOfFound(goFiles, id, route, handlerNode) ==
  TraceOfRoute(id, route, handlerNode,
               EnterFunction(goFiles, handlerNode.file, handlerNode.name, handlerNode.id, {}))

\* go:traceAPIFlow up to the first loop iteration of traceFunctionCalls
StartTrace(goFiles, id) ==
  IF RoutesWithId(RoutesOf[goFiles], id) = {}
  THEN [IdleRequest EXCEPT !.routeId = id, !.tpc = "error", !.failure = RouteNotFound(id)]
  ELSE TraceOfFound(goFiles, id, RoutesOf[goFiles][SetMin(RoutesWithId(RoutesOf[goFiles], id))],
                    HandlerNodeOf[goFiles][SetMin(RoutesWithId(RoutesOf[goFiles], id))])

\* the loop iteration for a call whose (name, kind) has no node
StepNewNode(req, src, call, nodeId, newNode, e) ==
  [req EXCEPT !.nodes = Append(@, newNode),
              !.edges = Append(@, EdgeToNewNode(src, nodeId, call)),
              !.processedFunctions = e.processed,
              !.stack = AdvanceTop(req.stack) \o e.frames]

EnterNewNode(goFiles, newNode, nodeId, processed) ==
  IF TracedFurther(newNode.file)
  THEN EnterFunction(goFiles, newNode.file, newNode.name, nodeId, processed)
  ELSE [processed |-> processed, frames |-> <<>>, keys |-> <<>>]

StepCreate(goFiles, req, src, call, nodeId, newNode, others) ==
  StepNewNode(req, src, call, nodeId, newNode,
              EnterNewNode(goFiles, newNode, nodeId,
                           ProcessedOf(req.processedFunctions, others)))

\* the loop iteration for a call whose (name, kind) has the node existing
StepExistingNode(req, src, call, existing) ==
  [req EXCEPT !.edges = Append(@, EdgeToExisting(src, req.nodes[existing], call)),
              !.stack = AdvanceTop(req.stack)]

StepCall(goFiles, req, src, call, nodeType, nodeId, existing, others) ==
  IF existing # 0
  THEN StepExistingNode(req, src, call, existing)
  ELSE StepCreate(goFiles, req, src, call, nodeId,
                  createNodeForFunction(goFiles, call, nodeType, nodeId), others)

StepOfCall(goFiles, req, src, call, nodeType, others) ==
  StepCall(goFiles, req, src, call, nodeType,
           nodeType \o "-" \o call.functionName \o "-" \o ToString(Len(req.nodes)),
           FindNode(req.nodes, call.functionName, nodeType), others)

StepOfFrame(goFiles, req, top, others) ==
  IF top.i > Len(top.calls)
  THEN [req EXCEPT !.stack = PopFrame(req.stack),
                   !.tpc = IF PopFrame(req.stack) = <<>> THEN "done" ELSE "tracing"]
  ELSE StepOfCall(goFiles, req, top.src, top.calls[top.i], NodeTypeOf[top.calls[top.i]], others)

\* one loop iteration, or the return, of the innermost traceFunctionCalls
StepTrace(goFiles, req, others) == StepOfFrame(goFiles, req, req.stack[Len(req.stack)], others)

\* the invocation run to its end with no other in flight
RECURSIVE RunAlone(_, _)
RunAlone(goFiles, req) ==
  IF req.tpc # "tracing" THEN req ELSE RunAlone(goFiles, StepTrace(goFiles, req, {}))

\* what a request answers: the graph, or the failure
ResultOf(req) == [nodes |-> req.nodes, edges |-> req.edges, failure |-> req.failure]

\* the projects two requests are run on together
ConcurrentProjects ==
  OtherLayouts \cup {<<MainFile(a, b)>> : a \in {<<"B()">>, <<"B()", "C()">>},
                                          b \in {<<>>, <<"A()">>}}

\* the answer of a request run alone
AloneResult ==
  [goFiles \in ConcurrentProjects |->
     [id \in RequestedIds(goFiles) |-> ResultOf(RunAlone(goFiles, StartTrace(goFiles, id)))]]

ConcurrentInit ==
  /\ files \in ConcurrentProjects
  /\ RouteIdle
  /\ TraceIdle
  /\ SymbolIdle
  /\ AllReadable
  /\ BlockIdle
  /\ RequestIdle
  /\ ListIdle
  /\ AstIdle
  /\ PathIdle
  /\ PeerIdle
  /\ KindIdle
  /\ ResolveIdle

\* the second go:traceAPIFlow request
PeerRequest ==
  /\ peer.tpc = "idle"
  /\ \E id \in RequestedIds(files) : peer' = StartTrace(files, id)
  /\ UNCHANGED <<files, unreadable, block, requestVars, listVars, astVars, pathVars, kindVars,
                 routeVars, traceVars, symbolVars, resolveVars>>

\* a step of the second request, between two steps of the first
PeerStep ==
  /\ peer.tpc = "tracing"
  /\ peer' = StepTrace(files, peer, processedFunctions)
  /\ UNCHANGED <<files, unreadable, block, requestVars, listVars, astVars, pathVars, kindVars,
                 routeVars, traceVars, symbolVars, resolveVars>>

ConcurrentNext ==
  \/ TraceRequest \/ TraceNewNode \/ TraceExistingNode \/ ReturnFromTrace
  \/ PeerRequest \/ PeerStep
  \/ DiscoverAPIRoutes \/ ScanFile

ConcurrentSpec == ConcurrentInit /\ [][ConcurrentNext]_vars

\* the first request as an invocation
FirstRequest ==
  [routeId |-> routeId, failure |-> failure, nodes |-> nodes, edges |-> edges,
   processedFunctions |-> processedFunctions, stack |-> stack, tpc |-> tpc]

Answered(req) == req.tpc \in {"done", "error"}

\* C22: when the steps of two trace requests and of a route discovery on
\* one project interleave in any order, each request answers what it
\* answers when run alone, and no step of one request changes the nodes,
\* edges or processedFunctions of another.
C22_RequestsIndependent ==
  /\ [](/\ Answered(FirstRequest) => ResultOf(FirstRequest) = AloneResult[files][routeId]
        /\ Answered(peer) => ResultOf(peer) = AloneResult[files][peer.routeId]
        /\ rpc = "done" => uniqueRoutes = RoutesOf[files])
  /\ [][/\ peer' # peer => UNCHANGED <<nodes, edges, processedFunctions, routeVars>>
        /\ <<nodes, edges, processedFunctions>>' # <<nodes, edges, processedFunctions>>
             => UNCHANGED <<peer, routeVars>>
        /\ routeVars' # routeVars => UNCHANGED <<peer, nodes, edges, processedFunctions>>]_vars

\* both requests traced the same route while the other was in flight, and
\* both expanded a function
C22_Witness ==
  /\ tpc = "done"
  /\ peer.tpc = "done"
  /\ peer.routeId = routeId
  /\ Len(peer.nodes) > 2
  /\ Len(stack) = 0
  /\ rpc = "done"

(***************************************************************************)
(* Further claims about the trace.                                         *)
(***************************************************************************)
FuncKeyOf(node) == node.file \o ":" \o node.name

\* C23: no node whose file is the "external" sentinel is passed to the
\* recursive expansion or entered in processedFunctions: no invocation of
\* traceFunctionCalls runs for it, and its funcKey is neither processed nor
\* expanded.
C23_ExternalNeverExpanded ==
  \A i \in 1..Len(nodes) :
    nodes[i].file = "external" =>
      /\ FuncKeyOf(nodes[i]) \notin processedFunctions
      /\ FuncKeyOf(nodes[i]) \notin Range(expanded)
      /\ \A k \in 1..Len(stack) : stack[k].src # nodes[i].id

\* a finished trace with a package-qualified callee of another kind than
\* external among its nodes, and a function that was expanded after it
C23_Witness ==
  /\ tpc = "done"
  /\ \E i \in 1..Len(nodes) :
       /\ nodes[i].file = "external"
       /\ Includes(nodes[i].name, ".")
       /\ nodes[i].type # "external"
       /\ \E j \in (i + 1)..Len(nodes) : FuncKeyOf(nodes[j]) \in Range(expanded)

(***************************************************************************)
(* Claims about the extracted calls.                                       *)
(***************************************************************************)
CallsInit ==
  /\ files \in CallProjects
  /\ AllReadable
  /\ BlockIdle
  /\ RequestIdle
  /\ ListIdle
  /\ AstIdle
  /\ PathIdle
  /\ PeerIdle
  /\ KindIdle
  /\ RouteIdle
  /\ TraceIdle
  /\ SymbolIdle
  /\ ResolveIdle

CallsSpec == CallsInit /\ [][AnalyzeNext]_vars

\* the constructs a file with calls was written from
CallConstructsOf ==
  [f \in CallFiles |-> CHOOSE ds \in CallDeclSeqs : FileText("package svc", ds) = f.content]

\* the calls of a file made of the constructs ds that are not in the
\* deny-list: callee and line, in order of appearance
RECURSIVE CallsWritten(_, _)
CallsWritten(ds, k) ==
  IF k > Len(ds) THEN <<>>
  ELSE [j \in 1..Len(ds[k].calls) |->
          [calledFunc |-> ds[k].calls[j].callee,
           callerLine |-> StartLine(ds, k) + ds[k].calls[j].offset]]
         \o CallsWritten(ds, k + 1)

CalleeAndLine(cs) ==
  [k \in 1..Len(cs) |-> [calledFunc |-> cs[k].calledFunc, callerLine |-> cs[k].callerLine]]

CallsOfPath(path) == SelectSeq(callGraph.calls, LAMBDA c : c.callerFile = path)

\* the calls of svc/c.go in the returned graph
ReturnedCalls == CallsOfPath("svc/c.go")

WrittenIn(goFiles) == CallConstructsOf[goFiles[Len(goFiles)]]

\* C24: extractFunctionCalls drops a call only when its callee is in the
\* deny-list: the returned graph holds one edge for every other call of the
\* form identifier( or identifier.identifier( of the file, in order.
C24_OnlyDenyListDropped ==
  cpc = "done" => CalleeAndLine(ReturnedCalls) = CallsWritten(WrittenIn(files), 1)

\* the function of the nearest signature line at or before a line, "" when
\* there is none
NearestSignature(ds, line) ==
  LET before == {k \in 1..Len(ds) : ds[k].func # "" /\ StartLine(ds, k) <= line}
  IN IF before = {} THEN "" ELSE ds[SetMax(before)].func

\* C25: every edge names as caller the function of the nearest preceding
\* function-signature line of its file, the empty name when there is none,
\* and its callerLine is the 1-based line of the call.
C25_CallerIsEnclosingFunction ==
  cpc = "done" =>
    \A k \in 1..Len(ReturnedCalls) :
      LET edge == ReturnedCalls[k]
      IN /\ edge.callerFunc = NearestSignature(WrittenIn(files), edge.callerLine)
         /\ [calledFunc |-> edge.calledFunc, callerLine |-> edge.callerLine]
              \in Range(CallsWritten(WrittenIn(files), 1))

(***************************************************************************)
(* The classification of a call (determineNodeType): callee names made of  *)
(* up to MaxTokens words, with call-site texts of every marker group.      *)
(***************************************************************************)
MaxTokens == 2

NameTokens ==
  {"Dto", "Model", "Db", "Scan", "Repo", "Save", "Get", "Http", "Api", "Run"}

CalleeNames == {JoinWith(ts, "") : ts \in {ts \in SeqsUpTo(NameTokens, MaxTokens) : Len(ts) > 0}}

CallContexts ==
  {"Run(x)", "json.Marshal(x)", "q(\"SELECT 1\")", "Delete(id)",
   "http.Get(url)", "http.Post(url, json.Marshal(x))", "http.Get(\"/update\")"}

KindInit ==
  /\ callSite \in {<<[functionName |-> n, context |-> c]>> : n \in CalleeNames, c \in CallContexts}
  /\ nodeKind = <<>>
  /\ files = <<>>
  /\ AllReadable
  /\ BlockIdle
  /\ RequestIdle
  /\ ListIdle
  /\ AstIdle
  /\ PathIdle
  /\ PeerIdle
  /\ RouteIdle
  /\ TraceIdle
  /\ SymbolIdle
  /\ ResolveIdle

\* determineNodeType(call.functionName, call.context)
DetermineNodeType ==
  /\ callSite # <<>>
  /\ nodeKind = <<>>
  /\ nodeKind' = <<determineNodeType(callSite[1].functionName, callSite[1].context)>>
  /\ UNCHANGED <<files, unreadable, block, requestVars, listVars, astVars, pathVars, peer,
                 callSite, routeVars, traceVars, symbolVars, resolveVars>>

KindNext == DetermineNodeType

KindSpec == KindInit /\ [][KindNext]_vars

\* the marker groups in the order of the claim: the markers looked for in
\* the lower-cased callee name and in the lower-cased call-site text
MarkerGroups ==
  << [kind |-> "dto", inName |-> {"dto", "model", "request", "response"},
      inContext |-> {"json.marshal", "json.unmarshal"}],
     [kind |-> "database", inName |-> {"db", "query", "exec", "scan"},
      inContext |-> {"select", "insert", "update", "delete"}],
     [kind |-> "repository", inName |-> {"repo", "repository", "find", "save", "get", "create"},
      inContext |-> {}],
     [kind |-> "external", inName |-> {"http", "client", "api"},
      inContext |-> {"http.get", "http.post"}] >>

GroupMatches(g, site) ==
  \/ \E marker \in MarkerGroups[g].inName : Includes(ToLowerCase(site.functionName), marker)
  \/ \E marker \in MarkerGroups[g].inContext : Includes(ToLowerCase(site.context), marker)

Matching(site) == {g \in 1..Len(MarkerGroups) : GroupMatches(g, site)}

\* C26: the result of determineNodeType is the kind of the first marker
\* group, in the order DTO, database, repository, external, with a matching
\* marker, 'service' when no group matches, and never 'route' or 'handler'.
C26_FirstMatchingGroup ==
  nodeKind # <<>> =>
    /\ nodeKind[1] = IF Matching(callSite[1]) = {} THEN "service"
                     ELSE MarkerGroups[SetMin(Matching(callSite[1]))].kind
    /\ nodeKind[1] \notin {"route", "handler"}

\* a call with markers of three groups, classified by the first of them
C26_Witness ==
  /\ nodeKind = <<"dto">>
  /\ Matching(callSite[1]) = {1, 3, 4}

NodeIds == {nodes[i].id : i \in 1..Len(nodes)}

\* C27: at every step of a trace the graph is well formed: node IDs are
\* pairwise distinct and the source and the target of every edge are IDs
\* of nodes of the graph.
C27_GraphWellFormed ==
  /\ \A i, j \in 1..Len(nodes) : nodes[i].id = nodes[j].id => i = j
  /\ \A k \in 1..Len(edges) : edges[k].source \in NodeIds /\ edges[k].target \in NodeIds

\* a finished trace that created nodes, expanded two functions and added an
\* edge to an existing node from a node it had created
C27_Witness ==
  /\ tpc = "done"
  /\ Len(nodes) >= 4
  /\ Len(expanded) >= 2
  /\ Len(edges) >= Len(nodes)
  /\ \E k \in 1..Len(edges) : edges[k].source \notin {nodes[1].id, nodes[2].id}

(***************************************************************************)
(* Further claims about route discovery.                                   *)
(***************************************************************************)
\* registrations whose paths differ by characters that are not word
\* characters, alone on a line, two on a line, and in files whose names
\* differ the same way
IdRegLines ==
  { "r.GET(\"/a/b\", H)",
    "r.GET(\"/a-b\", H)",
    "r.POST(\"/a/b\", H)",
    "r.GET(\"/users/:id\", U)",
    "r.GET(\"/users/{id}\", U)",
    "r.GET(\"/a/b\", H); r.GET(\"/a-b\", H)" }

RouteIdProjects ==
  {<<GoFile("main.go", a)>> : a \in SeqsUpTo(IdRegLines, MaxRegs)}
    \cup {<<GoFile("svc/a.go", <<a>>), GoFile("svc-a.go", <<b>>)>> : a, b \in IdRegLines}

RouteIdInit ==
  /\ files \in RouteIdProjects
  /\ RouteIdle
  /\ TraceIdle
  /\ SymbolIdle
  /\ AllReadable
  /\ BlockIdle
  /\ RequestIdle
  /\ ListIdle
  /\ AstIdle
  /\ PathIdle
  /\ PeerIdle
  /\ KindIdle
  /\ ResolveIdle

RouteIdSpec == RouteIdInit /\ [][RouteNext]_vars

\* C28: in the returned route list the IDs are pairwise distinct: two
\* returned routes, which differ in method or in path, never have the same
\* ID.
C28_RouteIdsDistinct ==
  rpc = "done" =>
    \A i, j \in 1..Len(uniqueRoutes) : uniqueRoutes[i].id = uniqueRoutes[j].id => i = j

\* registrations of one handler under paths that differ only in the slashes
\* before and after the segment
MaxSlashes == 2

RECURSIVE Slashes(_)
Slashes(n) == IF n = 0 THEN "" ELSE "/" \o Slashes(n - 1)

SlashPaths ==
  {Slashes(l) \o core \o Slashes(t) : l \in 0..MaxSlashes, core \in {"a"}, t \in 0..MaxSlashes}
    \cup {Slashes(n) : n \in 1..MaxSlashes}

SlashRegLines == {"r.GET(\"" \o p \o "\", H)" : p \in SlashPaths}

SlashProjects == {<<GoFile("main.go", a)>> : a \in SeqsUpTo(SlashRegLines, MaxRegs)}

SlashInit ==
  /\ files \in SlashProjects
  /\ RouteIdle
  /\ TraceIdle
  /\ SymbolIdle
  /\ AllReadable
  /\ BlockIdle
  /\ RequestIdle
  /\ ListIdle
  /\ AstIdle
  /\ PathIdle
  /\ PeerIdle
  /\ KindIdle
  /\ ResolveIdle

SlashSpec == SlashInit /\ [][RouteNext]_vars

\* the path without the slashes it starts and ends with
RECURSIVE WithoutOuterSlashes(_)
WithoutOuterSlashes(p) ==
  IF p = "" THEN ""
  ELSE IF SubSeq(p, 1, 1) = "/" THEN WithoutOuterSlashes(SubSeq(p, 2, Len(p)))
  ELSE IF SubSeq(p, Len(p), Len(p)) = "/" THEN WithoutOuterSlashes(SubSeq(p, 1, Len(p) - 1))
  ELSE p

\* C29: normalising a route path is idempotent, so every returned path,
\* which is a normalised one, is left as it is by cleanPath, and two
\* registrations of one method whose paths differ only in the slashes at
\* their start and end are returned as one route.
C29_CleanPathIdempotent ==
  rpc = "done" =>
    /\ \A i \in 1..Len(uniqueRoutes) : cleanPath(uniqueRoutes[i].path) = uniqueRoutes[i].path
    /\ \A i, j \in 1..Len(uniqueRoutes) :
         (/\ uniqueRoutes[i].method = uniqueRoutes[j].method
          /\ WithoutOuterSlashes(uniqueRoutes[i].path) = WithoutOuterSlashes(uniqueRoutes[j].path))
           => i = j

(***************************************************************************)
(* A route discovery and a trace request on one project.                   *)
(***************************************************************************)
DiscoverTraceInit ==
  /\ files \in TraceProjects
  /\ RouteIdle
  /\ TraceIdle
  /\ SymbolIdle
  /\ AllReadable
  /\ BlockIdle
  /\ RequestIdle
  /\ ListIdle
  /\ AstIdle
  /\ PathIdle
  /\ PeerIdle
  /\ KindIdle
  /\ ResolveIdle

\* go:traceAPIFlow asked for an ID of the list go:discoverAPIRoutes returned
TraceDiscoveredRoute ==
  /\ rpc = "done"
  /\ tpc = "idle"
  /\ \E i \in 1..Len(uniqueRoutes) : TraceAPIFlow(uniqueRoutes[i].id)
  /\ UNCHANGED <<files, unreadable, block, listVars, astVars, pathVars, peer, kindVars, routeVars,
                 symbolVars, resolveVars>>

DiscoverTraceNext ==
  \/ DiscoverAPIRoutes \/ ScanFile
  \/ TraceDiscoveredRoute \/ TraceNewNode \/ TraceExistingNode \/ ReturnFromTrace

DiscoverTraceSpec == DiscoverTraceInit /\ [][DiscoverTraceNext]_vars

\* the route the trace was made for is the given one, by method, path and
\* handler
TracedFor(route) ==
  /\ tpc \in {"tracing", "done"}
  /\ Len(targetRoute) = 1
  /\ targetRoute[1].method = route.method
  /\ targetRoute[1].path = route.path
  /\ targetRoute[1].handler = route.handler

\* C30: the list a trace request searches is the list the discovery
\* returned for the project (the same routes with the same IDs in the same
\* order), and a trace request for the ID of a returned route finds a route
\* and is made for the returned route that has this ID.
C30_TraceSearchesDiscoveredList ==
  rpc = "done" =>
    /\ uniqueRoutes = RoutesOf[files]
    /\ tpc # "idle" =>
         \A i \in 1..Len(uniqueRoutes) : uniqueRoutes[i].id = routeId => TracedFor(uniqueRoutes[i])
====
